---- MODULE Spec2Model ----
(***************************************************************************)
(* A model of the booking back-office client: the booking wizard           *)
(* (BookingModal), its pure helpers validateStepData and                   *)
(* buildBookingPayload, the HTTP client wrapper and the session store.     *)
(*                                                                         *)
(* JavaScript strings are modelled as sequences of one-character strings,  *)
(* so that trim, toUpperCase, replace and slice are computed and not       *)
(* assumed.  The empty string '' is the empty sequence.                    *)
(***************************************************************************)
EXTENDS Integers, Sequences, FiniteSets, TLC

VARIABLES
    \* ---- BookingModal (AdminDashboard.tsx 1391-1421)
    isOpen,               \* prop isOpen, owned by the parent list view
    currentStep,          \* useState(0)
    errors,               \* useState<Record<string,string>>({})
    serverError,          \* useState('')
    submitting,           \* useState(false)
    bookings,             \* useState<BookingFormData[]>([])
    currentBookingIndex,  \* useState(0)  (0-based, as in the source)
    formData,             \* useState<BookingFormData>(empty)
    user,                 \* useAuth().user
    \* ---- one run of the async handleSubmit
    sub,                  \* its position, captured closure and locals
    calls,                \* the outward calls made by the step just taken
    edits,                \* number of input events so far (bounded)
    posted,               \* the slots the server has created a booking for
                          \* since the slots were last reset
    \* ---- buildBookingPayload applied to drawn inputs
    pIn, pUser, pOut,
    \* ---- validateStepData applied to drawn inputs
    vIn, vId, vOut,
    \* ---- Bookings list view (Bookings.tsx 261-278) and its server
    uiBookings,           \* useState<UiBooking[]>([]), as the list of ids
    listLoading,          \* useState(false)
    listErr,              \* useState('')
    listIsAdmin,          \* user?.role === 'admin'
    server,               \* the server's bookings: absent, live or deleted
    toReport,             \* bookings created whose onSubmit call is due
    dels,                 \* the runs of handleDelete awaiting a response
    gets,                 \* the runs of fetchBookings awaiting a response
    listCalls,            \* the requests sent by the step just taken
    alerted,              \* the step just taken called alert('Delete failed')
    \* ---- mapBooking applied to a drawn record
    mIn, mOut,
    \* ---- session store and HTTP client
    ls,                   \* localStorage: token, user, companyId
    authUser,             \* AuthProvider's user state
    isLoading,            \* AuthProvider's isLoading state
    auth,                 \* the position and locals of boot, login or logout
    urlCompanyId,         \* ?companyId= of window.location
    envCompanyId,         \* import.meta.env.VITE_COMPANY_ID
    inflight,             \* component requests awaiting a response
    wire,                 \* the HTTP requests sent by the step just taken
    last401,              \* the step just taken handled a 401 response
    loginReturned,        \* the value login() returned in the step just taken
    \* ---- BookingEditor (part_001 350-565)
    pnr,                  \* useState<string>("")
    customerName,         \* useState<string>("")
    customerEmail,        \* useState<string>("")
    bookingPackage,       \* useState<string>("")
    travelDate,           \* useState<string>("")
    saving,               \* useState(false)
    saveError,            \* useState<string | null>(null): <<>> is null
    saveOk,               \* useState<string | null>(null): <<>> is null
    saveReq,              \* the request sent by the step just taken
    \* ---- Bookings.handleDownloadPDF (Bookings.tsx 405-453)
    pdf,                  \* per booking: the position and locals of its run
    pdfCalls,             \* the requests sent by the step just taken
    pdfSaved,             \* the file the step just taken handed to the browser
    pdfAlert,             \* the step just taken called alert(...)
    \* ---- Inquiries (BarChart.tsx 609-755), the data context and the server
    inquiries,            \* useData().inquiries: the status listed per inquiry
    inqServer,            \* the server's status of each inquiry
    inqIsAdmin,           \* user?.role === 'admin'
    inqLoading,           \* useState(false): loading
    inqErr,               \* useState(''): err
    respondingTo,         \* useState<string | null>(null): "" is null
    responseText,         \* useState('')
    assigningTo,          \* useState<string | null>(null): "" is null
    selectedAgentId,      \* useState<string>('')
    resp,                 \* the run of submitResponse/respond under way
    clo,                  \* the run of closeInquiry under way
    asg,                  \* the run of assignInquiry under way
    inqCalls,             \* the requests sent by the step just taken
    \* ---- the specification of the busy flags
    mounted               \* the component whose operations are followed

wizVars == <<isOpen, currentStep, errors, serverError, submitting, bookings,
             currentBookingIndex, formData, user, sub, calls,
             edits, posted>>
payVars == <<pIn, pUser, pOut>>
sessVars == <<ls, authUser, isLoading, auth, urlCompanyId, envCompanyId,
              inflight, wire, last401, loginReturned>>
valVars == <<vIn, vId, vOut>>
listVars == <<uiBookings, listLoading, listErr, listIsAdmin, server, toReport,
              dels, gets, listCalls, alerted>>
mapVars == <<mIn, mOut>>
edVars == <<pnr, customerName, customerEmail, bookingPackage, travelDate,
            saving, saveError, saveOk, saveReq>>
pdfVars == <<pdf, pdfCalls, pdfSaved, pdfAlert>>
inqVars == <<inquiries, inqServer, inqIsAdmin, inqLoading, inqErr, respondingTo,
             responseText, assigningTo, selectedAgentId, resp, clo, asg, inqCalls>>
moreVars == <<edVars, pdfVars, inqVars, mounted>>
vars == <<wizVars, payVars, sessVars, valVars, listVars, mapVars, moreVars>>

\* What the steps of one component leave alone
notWizVars == <<payVars, sessVars, valVars, listVars, mapVars, moreVars>>
notPayVars == <<wizVars, sessVars, valVars, listVars, mapVars, moreVars>>
notSessVars == <<wizVars, payVars, valVars, listVars, mapVars, moreVars>>
notValVars == <<wizVars, payVars, sessVars, listVars, mapVars, moreVars>>
notListVars == <<wizVars, payVars, sessVars, valVars, mapVars, moreVars>>
notMapVars == <<wizVars, payVars, sessVars, valVars, listVars, moreVars>>
notEdVars == <<wizVars, payVars, valVars, listVars, mapVars, pdfVars, inqVars, mounted>>
notPdfVars == <<wizVars, payVars, sessVars, valVars, listVars, mapVars, edVars, inqVars, mounted>>
notInqVars == <<wizVars, payVars, sessVars, valVars, listVars, mapVars, edVars, pdfVars, mounted>>

----------------------------------------------------------------------------
\* Bounds of the model

MaxSlots == 2
MaxEdits == 1
MaxDeletes == 2
MaxFetches == 1
MaxInflight == 1

----------------------------------------------------------------------------
\* JavaScript string primitives, on sequences of characters

LowerChars == <<"a","b","c","d","e","f","g","h","i","j","k","l","m",
                "n","o","p","q","r","s","t","u","v","w","x","y","z">>
UpperChars == <<"A","B","C","D","E","F","G","H","I","J","K","L","M",
                "N","O","P","Q","R","S","T","U","V","W","X","Y","Z">>
DigitChars == <<"0","1","2","3","4","5","6","7","8","9">>

IsDigit(c) == \E i \in 1..10 : DigitChars[i] = c
IsUpper(c) == \E i \in 1..26 : UpperChars[i] = c
IsLower(c) == \E i \in 1..26 : LowerChars[i] = c
IsSpace(c) == c = " "

toUpperCaseChar(c) ==
    IF IsLower(c) THEN UpperChars[CHOOSE i \in 1..26 : LowerChars[i] = c] ELSE c

\* String.prototype.toUpperCase
toUpperCase(s) == [i \in 1..Len(s) |-> toUpperCaseChar(s[i])]

\* F(x), with x evaluated once
Once(F(_), x) == CHOOSE r \in { F(v) : v \in {x} } : TRUE

\* String.prototype.trim
trimmed(s) ==
    LET idx == {i \in 1..Len(s) : ~IsSpace(s[i])}
    IN  IF idx = {} THEN <<>>
        ELSE SubSeq(s, CHOOSE i \in idx : \A j \in idx : i <= j,
                       CHOOSE i \in idx : \A j \in idx : i >= j)
trim(s) == Once(trimmed, s)

\* s.slice(0, n)
sliceFirst(s, n) == SubSeq(s, 1, IF Len(s) < n THEN Len(s) ELSE n)

\* s.slice(-n)
sliceLast(s, n) == SubSeq(s, IF Len(s) < n THEN 1 ELSE Len(s) - n + 1, Len(s))

IsAZ09(c) == IsUpper(c) \/ IsDigit(c)
IsAlnum(c) == IsLower(c) \/ IsUpper(c) \/ IsDigit(c)
NotAlnumRemoved(s) == SelectSeq(s, IsAlnum)        \* replace(/[^a-zA-Z0-9]/g, '')
NotAZ09Removed(s) == SelectSeq(s, IsAZ09)          \* replace(/[^A-Z0-9]/g, '')
OnlyDigits(s) == SelectSeq(s, IsDigit)             \* replace(/\D/g, '')
IsNotDollarComma(c) == c # "$" /\ c # ","
DollarCommaRemoved(s) == SelectSeq(s, IsNotDollarComma)  \* replace(/[$,]/g, '')

\* /^[A-Z0-9]{6}$/.test(s)
MatchesPNRRegex(s) == Len(s) = 6 /\ \A i \in 1..Len(s) : IsAZ09(s[i])

\* Number(s) for strings over digits, letters, blanks and punctuation (no
\* sign, fraction or exponent occurs in the model's inputs).  NaN is the
\* sentinel -1, which no digit string denotes.
NaN == -1
DigitValue(c) == (CHOOSE i \in 1..10 : DigitChars[i] = c) - 1
RECURSIVE DigitsToNumber(_)
DigitsToNumber(s) ==
    IF s = <<>> THEN 0
    ELSE 10 * DigitsToNumber(SubSeq(s, 1, Len(s) - 1)) + DigitValue(s[Len(s)])
Number(s) ==
    LET t == trim(s)
    IN  IF t = <<>> THEN 0
        ELSE IF \A i \in 1..Len(t) : IsDigit(t[i]) THEN DigitsToNumber(t)
        ELSE NaN

----------------------------------------------------------------------------
\* AdminDashboard.tsx: pure helpers

\* isoOrNull: null and '' are both falsy and every call site is
\* `isoOrNull(v) || fallback`, so null is modelled as the empty sequence.
\* A date value is the sequence of its characters; the ISO form appends the
\* time part.  Date inputs yield only valid dates or ''.
IsoTimeSuffix == <<"T","0","0",":","0","0","Z">>
isoOrNull(v) == IF v = <<>> THEN <<>> ELSE v \o IsoTimeSuffix

\* new Date().toISOString(): the current instant
NowIso == <<"n","o","w">> \o IsoTimeSuffix

\* sanitizePNR without slice(0, 6)
sanitizePNRUncut(v) == NotAZ09Removed(toUpperCase(v))

sanitizePNR(v) == sliceFirst(NotAZ09Removed(toUpperCase(v)), 6)

toNumberMaybe(v) ==
    LET n == Number(DollarCommaRemoved(v))
    IN  IF n # NaN THEN n ELSE 0

----------------------------------------------------------------------------
\* BookingFormData (AdminDashboard.tsx 1147-1195) and the steps

StepIds == <<"contact", "credit", "flights", "hotels", "visa", "transport", "costing">>
LastStep == Len(StepIds) - 1          \* steps.length - 1, 0-based as in the source

\* option values of the select elements and literal statuses
Economy == <<"e","c","o","n","o","m","y">>
Umrah == <<"u","m","r","a","h">>
Bus == <<"b","u","s">>
CreditCard == <<"c","r","e","d","i","t","_","c","a","r","d">>
Pending == <<"p","e","n","d","i","n","g">>

ContactPaymentFields ==
    {"name", "passengers", "adults", "children", "email", "contactNumber",
     "agent", "cardNumber", "expiryDate", "cvv", "cardholderName"}
TripFields ==
    {"departureCity", "arrivalCity", "departureDate", "returnDate",
     "flightClass", "pnr", "hotelName", "roomType", "checkIn", "checkOut",
     "visaType", "passportNumber", "nationality", "transportType",
     "pickupLocation", "packagePrice", "additionalServices", "totalAmount",
     "paymentMethod", "package", "date"}
FormFields == ContactPaymentFields \cup TripFields

\* the `empty` constant of BookingModal
empty ==
    [name |-> <<>>, passengers |-> <<>>, adults |-> <<>>, children |-> <<>>,
     email |-> <<>>, contactNumber |-> <<>>, agent |-> <<>>,
     cardNumber |-> <<>>, expiryDate |-> <<>>, cvv |-> <<>>, cardholderName |-> <<>>,
     departureCity |-> <<>>, arrivalCity |-> <<>>, departureDate |-> <<>>,
     returnDate |-> <<>>, flightClass |-> Economy, pnr |-> <<>>,
     hotelName |-> <<>>, roomType |-> <<>>, checkIn |-> <<>>, checkOut |-> <<>>,
     visaType |-> Umrah, passportNumber |-> <<>>, nationality |-> <<>>,
     transportType |-> Bus, pickupLocation |-> <<>>,
     packagePrice |-> <<>>, additionalServices |-> <<>>, totalAmount |-> <<>>,
     paymentMethod |-> CreditCard,
     package |-> <<>>, date |-> <<>>]

\* today.toISOString().slice(0, 10) and the same a week later
Today == <<"2","0","2","6","-","0","1","-","0","1">>
NextWeek == <<"2","0","2","6","-","0","1","-","0","8">>

\* the testData literal of fillTestData
testData ==
    [name |-> <<"J","o","h","n"," ","D","o","e">>,
     email |-> <<"j","o","h","n","@","e","x","a","m","p","l","e",".","c","o","m">>,
     contactNumber |-> <<"+","1","-","5","5","5","-","1","2","3","4">>,
     passengers |-> <<"3">>, adults |-> <<"2">>, children |-> <<"1">>,
     agent |-> <<>>,
     cardNumber |-> <<"4","1","1","1"," ","1","1","1","1"," ","1","1","1","1"," ","1","1","1","1">>,
     expiryDate |-> <<"1","2","/","2","8">>,
     cvv |-> <<"1","2","3">>,
     cardholderName |-> <<"J","O","H","N"," ","D","O","E">>,
     departureCity |-> <<"K","a","r","a","c","h","i">>,
     arrivalCity |-> <<"J","e","d","d","a","h">>,
     departureDate |-> Today, returnDate |-> NextWeek,
     flightClass |-> Economy,
     pnr |-> <<"A","B","C","1","2","D">>,
     hotelName |-> <<"H","i","l","t","o","n">>,
     roomType |-> <<"d","o","u","b","l","e">>,
     checkIn |-> Today, checkOut |-> NextWeek,
     visaType |-> Umrah,
     passportNumber |-> <<"A","B","1","2","3","4","5","6","7">>,
     nationality |-> <<"P","K">>,
     transportType |-> Bus,
     pickupLocation |-> <<"J","e","d","d","a","h"," ","A","i","r","p","o","r","t">>,
     packagePrice |-> <<"1","2","0","0">>,
     additionalServices |-> <<"Z","a","m","z","a","m">>,
     totalAmount |-> <<"1","5","0","0">>,
     paymentMethod |-> CreditCard,
     package |-> <<"7","N"," ","U","m","r","a","h">>,
     date |-> Today]

----------------------------------------------------------------------------
\* validateStepData: the error map is a function from field names to messages

NoErrors == [k \in {} |-> ""]

\* { ...a, ...b }
Spread(a, b) ==
    [k \in DOMAIN a \cup DOMAIN b |-> IF k \in DOMAIN b THEN b[k] ELSE a[k]]

\* the map holding msg under key exactly when cond holds
ErrIf(cond, key, msg) == IF cond THEN [k \in {key} |-> msg] ELSE NoErrors

contactErrors(fd) ==
    Spread(Spread(Spread(
        ErrIf(trim(fd.name) = <<>>, "name", "Name is required"),
        ErrIf(trim(fd.email) = <<>>, "email", "Email is required")),
        ErrIf(trim(fd.contactNumber) = <<>>, "contactNumber", "Contact number is required")),
        ErrIf(trim(fd.passengers) = <<>>, "passengers", "Number of passengers is required"))

creditErrors(fd) ==
    ErrIf(trim(fd.cardholderName) = <<>>, "cardholderName", "Cardholder name is required")

\* pnrErrors without the format test of line 1239
pnrErrorsRequiredOnly(fd) ==
    IF trim(fd.pnr) = <<>> THEN [k \in {"pnr"} |-> "PNR is required"] ELSE NoErrors

\* lines 1236-1241
pnrErrors(fd) ==
    IF trim(fd.pnr) = <<>> THEN [k \in {"pnr"} |-> "PNR is required"]
    ELSE IF ~MatchesPNRRegex(trim(fd.pnr))
         THEN [k \in {"pnr"} |-> "PNR must be exactly 6 letters/numbers (e.g. ABC12D)"]
         ELSE NoErrors

flightsErrors(fd) ==
    Spread(Spread(Spread(Spread(Spread(
        ErrIf(trim(fd.departureCity) = <<>>, "departureCity", "Departure city is required"),
        ErrIf(trim(fd.arrivalCity) = <<>>, "arrivalCity", "Arrival city is required")),
        ErrIf(fd.departureDate = <<>>, "departureDate", "Departure date is required")),
        ErrIf(fd.returnDate = <<>>, "returnDate", "Return date is required")),
        ErrIf(fd.date = <<>>, "date", "Booking date is required")),
        pnrErrors(fd))

costingErrors(fd) ==
    Spread(
        ErrIf(trim(fd.totalAmount) = <<>>, "totalAmount", "Total amount is required"),
        ErrIf(trim(fd.package) = <<>>, "package", "Package is required"))

validateStepData(fd, id) ==
    CASE id = "contact" -> contactErrors(fd)
      [] id = "credit"  -> creditErrors(fd)
      [] id = "flights" -> flightsErrors(fd)
      [] id = "costing" -> costingErrors(fd)
      [] OTHER          -> NoErrors

\* Object.keys(e).length
KeyCount(e) == Cardinality(DOMAIN e)

----------------------------------------------------------------------------
\* buildBookingPayload (AdminDashboard.tsx 1251-1383)

\* JavaScript undefined: a one-element sequence that is no string of the model
Undefined == <<"undefined">>

\* The auth user: null, or an object of which agentId, id and _id may be absent
NullUser == [isNull |-> TRUE, agentId |-> Undefined, id |-> Undefined, _id |-> Undefined]
UserObject(agentId, id, oid) == [isNull |-> FALSE, agentId |-> agentId, id |-> id, _id |-> oid]

\* user?.f
OptField(u, f) == IF u.isNull THEN Undefined ELSE u[f]

\* a ?? b
Coalesce(a, b) == IF a = Undefined THEN b ELSE a

\* a || b on strings
OrElse(a, b) == IF a = <<>> THEN b ELSE a

\* line 1252: user?.agentId ?? user?.id ?? user?._id ?? (formData.agent || undefined)
agentIdOf(fd, u) ==
    Coalesce(OptField(u, "agentId"),
        Coalesce(OptField(u, "id"),
            Coalesce(OptField(u, "_id"), OrElse(fd.agent, Undefined))))

\* lines 1258-1261
bookingDateIsoOf(fd) ==
    OrElse(isoOrNull(fd.date), OrElse(isoOrNull(fd.departureDate), NowIso))

\* The required-field checks without the package check of lines 1270-1272
buildErrorNoPackage(fd) ==
    IF trim(fd.name) = <<>> THEN "Customer name is required"
    ELSE IF trim(fd.email) = <<>> THEN "Customer email is required"
    ELSE ""

\* lines 1263-1272: the message of the Error thrown, '' when none is thrown
buildError(fd) ==
    IF trim(fd.name) = <<>> THEN "Customer name is required"
    ELSE IF trim(fd.email) = <<>> THEN "Customer email is required"
    ELSE IF trim(fd.package) = <<>> THEN "Package is required"
    ELSE ""

\* lines 1303-1309
pricingOf(fd) ==
    [packageName |-> trim(fd.package),
     packagePrice |-> toNumberMaybe(fd.packagePrice),
     additionalServices |-> fd.additionalServices,
     totalAmount |-> toNumberMaybe(fd.totalAmount),
     paymentMethod |-> OrElse(fd.paymentMethod, CreditCard)]

\* lines 1323-1330
flightOf(fd) ==
    [departureCity |-> fd.departureCity,
     arrivalCity |-> fd.arrivalCity,
     departureDate |-> isoOrNull(fd.departureDate),
     returnDate |-> isoOrNull(fd.returnDate),
     flightClass |-> OrElse(fd.flightClass, Economy),
     pnr |-> fd.pnr]

\* lines 1336-1341
hotelOf(fd) ==
    [hotelName |-> fd.hotelName, roomType |-> fd.roomType,
     checkIn |-> isoOrNull(fd.checkIn), checkOut |-> isoOrNull(fd.checkOut)]

\* lines 1348-1352
visaOf(fd) ==
    [visaType |-> OrElse(fd.visaType, Umrah),
     passportNumber |-> fd.passportNumber, nationality |-> fd.nationality]

\* lines 1358-1361
transportOf(fd) ==
    [transportType |-> OrElse(fd.transportType, Bus),
     pickupLocation |-> fd.pickupLocation]

\* lines 1366-1371
paymentOf(fd) ==
    [method |-> OrElse(fd.paymentMethod, CreditCard),
     cardLast4 |-> sliceLast(OnlyDigits(fd.cardNumber), 4),
     cardholderName |-> fd.cardholderName,
     expiryDate |-> fd.expiryDate]

\* lines 1372-1375: the legacy top-level card fields
legacyCardNumberOf(fd) == fd.cardNumber
legacyCvvOf(fd) == fd.cvv

\* The payload returned when nothing is thrown (lines 1288-1380).
\* `x || ''` on a string is x, so those defaults are written as x.
buildBookingPayload(fd, u) ==
    [customerName |-> trim(fd.name),
     customerEmail |-> trim(fd.email),
     contactNumber |-> fd.contactNumber,
     passengers |-> fd.passengers,
     adults |-> fd.adults,
     children |-> fd.children,
     agentId |-> agentIdOf(fd, u),
     customerGroup |-> trim(fd.email),
     package |-> trim(fd.package),
     pricing |-> pricingOf(fd),
     packagePrice |-> toNumberMaybe(fd.packagePrice),
     additionalServices |-> fd.additionalServices,
     totalAmount |-> toNumberMaybe(fd.totalAmount),
     paymentMethod |-> OrElse(fd.paymentMethod, CreditCard),
     amount |-> toNumberMaybe(fd.totalAmount),
     date |-> bookingDateIsoOf(fd),
     departureDate |-> isoOrNull(fd.departureDate),
     returnDate |-> isoOrNull(fd.returnDate),
     flight |-> flightOf(fd),
     departureCity |-> fd.departureCity,
     arrivalCity |-> fd.arrivalCity,
     flightClass |-> OrElse(fd.flightClass, Economy),
     hotel |-> hotelOf(fd),
     hotelName |-> fd.hotelName,
     roomType |-> fd.roomType,
     checkIn |-> isoOrNull(fd.checkIn),
     checkOut |-> isoOrNull(fd.checkOut),
     visa |-> visaOf(fd),
     visaType |-> OrElse(fd.visaType, Umrah),
     passportNumber |-> fd.passportNumber,
     nationality |-> fd.nationality,
     transport |-> transportOf(fd),
     transportType |-> OrElse(fd.transportType, Bus),
     pickupLocation |-> fd.pickupLocation,
     payment |-> paymentOf(fd),
     cardNumber |-> legacyCardNumberOf(fd),
     expiryDate |-> fd.expiryDate,
     cvv |-> legacyCvvOf(fd),
     cardholderName |-> fd.cardholderName,
     status |-> Pending,
     approvalStatus |-> Pending]

----------------------------------------------------------------------------
\* BookingModal: state after construction (AdminDashboard.tsx 1394-1421)

\* the step on which each input element is rendered (lines 1694-2083)
StepOfField(f) ==
    CASE f \in {"name", "passengers", "adults", "children", "email",
                "contactNumber", "agent"} -> "contact"
      [] f \in {"cardNumber", "expiryDate", "cvv", "cardholderName"} -> "credit"
      [] f \in {"departureCity", "arrivalCity", "departureDate", "returnDate",
                "date", "pnr", "flightClass"} -> "flights"
      [] f \in {"hotelName", "roomType", "checkIn", "checkOut"} -> "hotels"
      [] f \in {"visaType", "passportNumber", "nationality"} -> "visa"
      [] f \in {"transportType", "pickupLocation"} -> "transport"
      [] OTHER -> "costing"

\* steps[currentStep].id
stepId == StepIds[currentStep + 1]

\* The input events of the model: a field and the raw value typed into it
InputEvents ==
    { <<"name", <<" ","A","l"," ">> >>,
      <<"name", <<" ">> >>,
      <<"agent", <<"a","l","i">> >>,
      <<"pnr", <<"a","b","-","1","2"," ","d","!">> >>,
      <<"pnr", <<"x","y","z","1","2","3","4","5">> >>,
      <<"departureCity", <<"K","h","i">> >>,
      <<"package", <<>> >> }

\* The logged-in user of the wizard: an agent account
WizardUsers == { UserObject(<<"a","7">>, <<"u","1">>, Undefined) }

\* The failures of a create-request: err.response.data.message,
\* err.response.data when it is a string, err.message
PostErrors ==
    { [dataMessage |-> "PNR already exists", dataString |-> "", message |-> "Request failed with status code 409"],
      [dataMessage |-> "", dataString |-> "", message |-> "Network Error"] }

\* handleSubmit is not running: no closure, no locals, nothing in flight
IdleSub == [pc |-> "idle", snap |-> <<>>, i |-> 0, created |-> <<>>]

\* Outward calls: a create-request for the slot at an index of the captured
\* bookings, onSubmit(created) and onClose()
PostCall(i, payload) == [call |-> "POST /api/bookings", slot |-> i, payload |-> payload]
OnSubmitCall(created) == [call |-> "onSubmit", slot |-> created, payload |-> <<>>]
OnCloseCall == [call |-> "onClose", slot |-> -1, payload |-> <<>>]

WizInit ==
    /\ isOpen = FALSE
    /\ currentStep = 0
    /\ errors = NoErrors
    /\ serverError = <<>>
    /\ submitting = FALSE
    /\ bookings = <<>>
    /\ currentBookingIndex = 0
    /\ formData = empty
    /\ user \in WizardUsers
    /\ sub = IdleSub
    /\ calls = <<>>
    /\ edits = 0
    /\ posted = {}

subVars == <<sub, calls>>
quiet == calls' = <<>> /\ UNCHANGED <<sub, posted>>

----------------------------------------------------------------------------
\* BookingModal: the handlers

\* bookings.map((b, index) => index === k ? fd : b)
ReplaceAt(bs, k, fd) == [n \in 1..Len(bs) |-> IF n - 1 = k THEN fd ELSE bs[n]]

\* The parent sets isOpen; the init effect (lines 1413-1419) then runs
OpenModal ==
    /\ ~isOpen
    /\ isOpen' = TRUE
    /\ IF Len(bookings) = 0
       THEN bookings' = <<empty>> /\ formData' = empty
       ELSE UNCHANGED <<bookings, formData>>
    /\ quiet
    /\ UNCHANGED <<currentStep, errors, serverError, submitting,
                   currentBookingIndex, user, edits>>

\* CloseModal with the slots reset on close
CloseModalResets ==
    /\ isOpen
    /\ isOpen' = FALSE
    /\ bookings' = <<empty>>
    /\ formData' = empty
    /\ currentBookingIndex' = 0
    /\ quiet
    /\ UNCHANGED <<currentStep, errors, serverError, submitting, user, edits>>

\* The X button (line 1650) and Cancel (lines 2099-2106) call onClose
CloseModal ==
    /\ isOpen
    /\ isOpen' = FALSE
    /\ quiet
    /\ UNCHANGED <<currentStep, errors, serverError, submitting, bookings,
                   currentBookingIndex, formData, user, edits>>

\* lines 1425-1443
inputValue(name, value) == IF name = "pnr" THEN sanitizePNR(value) ELSE value
updatedFormData(name, value) == [formData EXCEPT ![name] = inputValue(name, value)]
errorsAfterInput(name) ==
    IF name \in DOMAIN errors /\ errors[name] # ""
    THEN [errors EXCEPT ![name] = ""]
    ELSE errors

handleInputChange(name, value) ==
    /\ isOpen
    /\ stepId = StepOfField(name)
    /\ edits < MaxEdits
    /\ edits' = edits + 1
    /\ formData' = updatedFormData(name, value)
    /\ bookings' = ReplaceAt(bookings, currentBookingIndex, updatedFormData(name, value))
    /\ errors' = errorsAfterInput(name)
    /\ serverError' = <<>>
    /\ quiet
    /\ UNCHANGED <<isOpen, currentStep, submitting, currentBookingIndex, user>>

\* lines 1445-1455: validateStep and handleNext
nextStepAfter(step, fd) ==
    IF KeyCount(validateStepData(fd, StepIds[step + 1])) = 0 /\ step < LastStep
    THEN step + 1
    ELSE step

handleNext ==
    /\ isOpen
    /\ ~submitting
    /\ currentStep # LastStep
    /\ errors' = validateStepData(formData, stepId)
    /\ currentStep' = nextStepAfter(currentStep, formData)
    /\ quiet
    /\ UNCHANGED <<isOpen, serverError, submitting, bookings, currentBookingIndex,
                   formData, user, edits>>

\* line 1456
previousStepOf(step) == IF step - 1 > 0 THEN step - 1 ELSE 0

handlePrevious ==
    /\ isOpen
    /\ ~submitting
    /\ currentStep # 0
    /\ currentStep' = previousStepOf(currentStep)
    /\ quiet
    /\ UNCHANGED <<isOpen, errors, serverError, submitting, bookings,
                   currentBookingIndex, formData, user, edits>>

\* line 1667: the step indicator
jumpToStep(index) ==
    /\ isOpen
    /\ index # currentStep
    /\ currentStep' = index
    /\ quiet
    /\ UNCHANGED <<isOpen, errors, serverError, submitting, bookings,
                   currentBookingIndex, formData, user, edits>>

\* lines 1458-1464
swapCities ==
    /\ isOpen
    /\ stepId = "flights"
    /\ formData' = [formData EXCEPT !.departureCity = formData.arrivalCity,
                                    !.arrivalCity = formData.departureCity]
    /\ quiet
    /\ UNCHANGED <<isOpen, currentStep, errors, serverError, submitting, bookings,
                   currentBookingIndex, user, edits>>

\* newBookingFrom without the copied contact and payment fields
newBookingBlank(fd) == empty

\* lines 1467-1488
newBookingFrom(fd) ==
    [f \in FormFields |-> IF f \in ContactPaymentFields THEN fd[f] ELSE empty[f]]

\* lines 1466-1496
addAnotherBooking ==
    /\ isOpen
    /\ stepId = "costing"
    /\ Len(bookings) < MaxSlots
    /\ bookings' = Append(bookings, newBookingFrom(formData))
    /\ currentBookingIndex' = Len(bookings)
    /\ formData' = newBookingFrom(formData)
    /\ currentStep' = 0
    /\ errors' = NoErrors
    /\ serverError' = <<>>
    /\ quiet
    /\ UNCHANGED <<isOpen, submitting, user, edits>>

\* lines 1498-1503; the slot buttons are rendered when bookings.length > 1
switchToBooking(index) ==
    /\ isOpen
    /\ Len(bookings) > 1
    /\ index >= 0 /\ index < Len(bookings)
    /\ currentBookingIndex' = index
    /\ formData' = bookings[index + 1]
    /\ quiet
    /\ UNCHANGED <<isOpen, currentStep, errors, serverError, submitting, bookings,
                   user, edits>>

\* lines 1514-1557: testData names every field, so both spreads yield testData
fillTestData ==
    /\ isOpen
    /\ formData' = testData
    /\ bookings' = ReplaceAt(bookings, currentBookingIndex, testData)
    /\ quiet
    /\ UNCHANGED <<isOpen, currentStep, errors, serverError, submitting,
                   currentBookingIndex, user, edits>>

----------------------------------------------------------------------------
\* BookingModal.handleSubmit (lines 1559-1602)

\* errorsCombined without the costing rules
errorsFlightsOnly(b) == validateStepData(b, "flights")

\* line 1567: { ...flightErrors, ...costingErrors }
errorsCombined(b) ==
    Spread(validateStepData(b, "flights"), validateStepData(b, "costing"))

\* lines 1563-1576: the index at which the validation loop returns, -1 when
\* it runs to the end
RECURSIVE firstInvalidFrom(_, _)
firstInvalidFrom(bs, i) ==
    IF i >= Len(bs) THEN -1
    ELSE IF KeyCount(errorsCombined(bs[i + 1])) > 0 THEN i
    ELSE firstInvalidFrom(bs, i + 1)

\* line 1573
validationMessage(i) == <<"Please complete all required fields for Booking", i + 1>>

\* errorMessageOf reduced to its last fallback
errorMessageFallback(err) == "Failed to create booking"

\* lines 1593-1597
errorMessageOf(err) ==
    IF err.dataMessage # "" THEN err.dataMessage
    ELSE IF err.dataString # "" THEN err.dataString
    ELSE IF err.message # "" THEN err.message
    ELSE "Failed to create booking"

\* lines 1592-1601: catch and finally
submitCaught(msg) ==
    /\ serverError' = <<msg>>
    /\ submitting' = FALSE
    /\ sub' = IdleSub
    /\ calls' = <<>>

\* lines 1583-1584 for the slot at index i of the captured bookings: the
\* payload is built (which may throw) and the create-request is issued
submitIteration(snap, i, created) ==
    IF buildError(snap[i + 1]) # ""
    THEN submitCaught(buildError(snap[i + 1]))
    ELSE /\ sub' = [pc |-> "awaiting", snap |-> snap, i |-> i, created |-> created]
         /\ calls' = <<PostCall(i, buildBookingPayload(snap[i + 1], user))>>
         /\ submitting' = TRUE
         /\ serverError' = <<>>

\* lines 1505-1512
resetForm ==
    /\ bookings' = <<empty>>
    /\ formData' = empty
    /\ currentBookingIndex' = 0
    /\ currentStep' = 0
    /\ errors' = NoErrors
    /\ serverError' = <<>>

\* handleSubmit up to its first await. One run of handleSubmit is followed
\* at a time: a run starts when none is awaiting a response.
handleSubmit ==
    /\ isOpen
    /\ sub.pc = "idle"
    /\ LET k == firstInvalidFrom(bookings, 0)
       IN  IF k # -1
           THEN /\ currentBookingIndex' = k
                /\ formData' = bookings[k + 1]
                /\ errors' = errorsCombined(bookings[k + 1])
                /\ serverError' = validationMessage(k)
                /\ quiet
                /\ UNCHANGED <<isOpen, currentStep, submitting, bookings, user, edits>>
           ELSE /\ submitIteration(bookings, 0, <<>>)
                /\ UNCHANGED <<isOpen, currentStep, errors, bookings,
                               currentBookingIndex, formData, user, edits, posted>>

\* The Create Booking button (lines 2108-2116): rendered on the last step,
\* disabled while submitting
clickCreateBooking ==
    /\ currentStep = LastStep
    /\ ~submitting
    /\ handleSubmit

\* <form onSubmit={handleSubmit}> (line 1693) holds no submit button; the
\* browser submits such a form when Enter is pressed in its only text
\* field, which is the case on the transport step (pickupLocation, lines
\* 2008-2011)
pressEnterInOnlyTextField ==
    /\ stepId = "transport"
    /\ handleSubmit

\* res.data of the response to the request for the slot at index i: the
\* record the server made, identified by the ordinal of the request
createdRecord(i) == i + 1

\* createdBookings.forEach(booking => onSubmit?.(booking)); onClose()
reportCalls(created) ==
    [n \in 1..Len(created) |-> OnSubmitCall(created[n])] \o <<OnCloseCall>>

\* The response to the create-request in flight arrives; handleSubmit
\* resumes after line 1584
postSucceeds ==
    /\ sub.pc = "awaiting"
    /\ LET created == Append(sub.created, createdRecord(sub.i))
       IN  IF sub.i + 1 < Len(sub.snap)
           THEN /\ submitIteration(sub.snap, sub.i + 1, created)
                /\ posted' = posted \cup {sub.i}
                /\ UNCHANGED <<isOpen, currentStep, errors, bookings,
                               currentBookingIndex, formData, user, edits>>
           ELSE /\ calls' = reportCalls(created)
                /\ resetForm
                /\ posted' = {}
                /\ isOpen' = FALSE
                /\ submitting' = FALSE
                /\ sub' = IdleSub
                /\ UNCHANGED <<user, edits>>

\* The create-request in flight is rejected with err
postFails(err) ==
    /\ sub.pc = "awaiting"
    /\ submitCaught(errorMessageOf(err))
    /\ UNCHANGED <<isOpen, currentStep, errors, bookings, currentBookingIndex,
                   formData, user, edits, posted>>

PayIdle == pIn = empty /\ pUser = NullUser /\ pOut = <<>>
ValIdle == vIn = empty /\ vId = "contact" /\ vOut = <<>>

----------------------------------------------------------------------------
\* Session store (AuthContext.tsx) and HTTP client (lib/http.ts), in
\* src/unnamed/part_001

\* null, as returned by localStorage.getItem for an absent key
Null == <<"null">>

IsHex(c) == IsDigit(c) \/ c \in {"a","b","c","d","e","f","A","B","C","D","E","F"}

\* A user object as the server returns it; NoUserObject is null or an empty body
NoUserObject == [isNull |-> TRUE, role |-> "", company |-> Null]
UserRecord(role, company) == [isNull |-> FALSE, role |-> role, company |-> company]

CompanyA ==
    <<"6","5","a","1","b","2","c","3","d","4","e","5",
      "f","6","0","7","1","8","2","9","3","a","4","b">>
CompanyB ==
    <<"7","7","a","1","b","2","c","3","d","4","e","5",
      "f","6","0","7","1","8","2","9","3","a","4","b">>
QuotedCompanyB == <<"'">> \o CompanyB \o <<"'">>
BadCompany == <<"a","c","m","e">>
TokenOld == <<"t","k","0">>
TokenNew == <<"t","k","1">>

\* strip surrounding quotes (lines 29-34 and 1087-1092)
StripQuotes(s) ==
    IF Len(s) >= 1 /\ ((s[1] = "\"" /\ s[Len(s)] = "\"") \/ (s[1] = "'" /\ s[Len(s)] = "'"))
    THEN SubSeq(s, 2, Len(s) - 1)
    ELSE s

\* AuthContext normalizeId (lines 23-36); the ObjectId("...") wrapper does not
\* occur in the model's values
IsObjectId(t) == Len(t) = 24 /\ \A k \in 1..Len(t) : IsHex(t[k])
objectIdOrNull(t) == IF IsObjectId(t) THEN t ELSE Null
normalizeId(val) ==
    IF val = Null \/ val = <<>> THEN Null
    ELSE Once(objectIdOrNull, StripQuotes(trim(val)))

\* AuthContext extractCompanyId (lines 38-48) on a payload whose company is
\* carried in its `company` field
extractCompanyId(payload) ==
    IF payload.isNull \/ payload.company = Null THEN Null
    ELSE normalizeId(payload.company)

\* AuthContext saveCompanyIdIfAny (lines 50-54): the store afterwards
saveCompanyIdIfAny(store, payload) ==
    IF extractCompanyId(payload) # Null
    THEN [store EXCEPT !.companyId = extractCompanyId(payload)]
    ELSE store

\* http.ts normalizeCompanyId (lines 1077-1094)
emptyAsNull(t) == IF t = <<>> THEN Null ELSE t
normalizeCompanyId(val) ==
    IF val = Null \/ val = <<>> THEN Null
    ELSE Once(emptyAsNull, trim(StripQuotes(trim(val))))

\* http.ts getCompanyId (lines 1097-1116)
getCompanyId(store) ==
    IF normalizeCompanyId(store.companyId) # Null THEN normalizeCompanyId(store.companyId)
    ELSE IF normalizeCompanyId(urlCompanyId) # Null THEN normalizeCompanyId(urlCompanyId)
    ELSE IF normalizeCompanyId(envCompanyId) # Null THEN normalizeCompanyId(envCompanyId)
    ELSE Null

\* http.ts getToken (lines 1118-1121)
getToken(store) ==
    IF store.token # Null /\ trim(store.token) # <<>> THEN store.token ELSE Null

Bearer(token) == <<"B","e","a","r","e","r"," ">> \o token

\* The request interceptor (lines 1136-1175) applied to a request for url
\* while localStorage is store: an absent header is Null
IsMeEndpoint(url) == url \in {"/api/auth/me", "/api/agent/me"}
httpRequestOf(store, url) ==
    [client |-> "http", url |-> url,
     authorization |-> IF getToken(store) # Null THEN Bearer(getToken(store)) ELSE Null,
     companyId |-> getCompanyId(store),
     cacheBust |-> IsMeEndpoint(url)]

\* BookingEditor.handleSave (lines 535-550): fetch with its own headers
fetchRequestOf(store, url) ==
    [client |-> "fetch", url |-> url,
     authorization |-> IF store.token # Null /\ store.token # <<>>
                       THEN Bearer(store.token) ELSE Null,
     companyId |-> Null,
     cacheBust |-> FALSE]

\* The response interceptor (lines 1178-1188): the store after a rejected
\* response with the given status
afterRejected(store, status) ==
    IF status = 401 THEN [store EXCEPT !.token = Null] ELSE store

\* localStorage.removeItem of token, user and companyId
ClearedStore == [token |-> Null, user |-> NoUserObject, companyId |-> Null]

FailStatuses == {401, 500}

\* What the server may answer to /me and to a login request
MeDatas == { UserRecord("agent", CompanyA), UserRecord("admin", Null), NoUserObject }
LoginDatas ==
    { [token |-> TokenNew, user |-> UserRecord("agent", CompanyA)],
      [token |-> TokenNew, user |-> UserRecord("admin", Null)],
      [token |-> TokenNew, user |-> NoUserObject],
      [token |-> Null, user |-> NoUserObject] }

IdleAuth == [pc |-> "ready", hadCompanyId |-> FALSE, data |-> [token |-> Null, user |-> NoUserObject]]
AuthAt(pc, had, data) == [pc |-> pc, hadCompanyId |-> had, data |-> data]

SessInit ==
    /\ ls \in [token : {Null, TokenOld},
               user : {NoUserObject, UserRecord("agent", CompanyA)},
               companyId : {Null, CompanyA}]
    /\ authUser = NoUserObject
    /\ isLoading = TRUE
    /\ auth = AuthAt("boot", FALSE, IdleAuth.data)
    /\ urlCompanyId \in {Null, QuotedCompanyB}
    /\ envCompanyId \in {Null, BadCompany}
    /\ inflight = [http |-> 0, fetch |-> 0]
    /\ wire = <<>>
    /\ last401 = FALSE
    /\ loginReturned = "none"

SessIdle ==
    /\ ls = ClearedStore /\ authUser = NoUserObject /\ isLoading = TRUE
    /\ auth = AuthAt("boot", FALSE, IdleAuth.data)
    /\ urlCompanyId = Null /\ envCompanyId = Null
    /\ inflight = [http |-> 0, fetch |-> 0]
    /\ wire = <<>> /\ last401 = FALSE /\ loginReturned = "none"

sessEnv == <<urlCompanyId, envCompanyId>>

\* isAuthenticated: !!user (lines 176-179)
isAuthenticated == ~authUser.isNull

\* ---- the boot effect (lines 74-114)

\* up to the first await: the cached user is restored and, with a token
\* stored, the admin-me request is sent
bootStart ==
    /\ auth.pc = "boot"
    /\ authUser' = IF ls.user.isNull THEN authUser ELSE ls.user
    /\ IF ls.token = Null \/ ls.token = <<>>
       THEN /\ auth' = IdleAuth
            /\ isLoading' = FALSE
            /\ wire' = <<>>
       ELSE /\ auth' = AuthAt("bootMe1", ls.companyId # Null /\ ls.companyId # <<>>, IdleAuth.data)
            /\ wire' = <<httpRequestOf(ls, "/api/auth/me")>>
            /\ UNCHANGED isLoading
    /\ last401' = FALSE /\ loginReturned' = "none"
    /\ UNCHANGED <<ls, sessEnv, inflight>>

\* the store after `if (me) { saveCompanyIdIfAny(me); setItem("user", me) }`
storeWithMe(store, me) ==
    IF me.isNull THEN store
    ELSE [saveCompanyIdIfAny(store, me) EXCEPT !.user = me]

\* either /me request answers with data
bootMeOk(me) ==
    /\ auth.pc \in {"bootMe1", "bootMe2"}
    /\ ls' = storeWithMe(ls, me)
    /\ authUser' = IF me.isNull THEN authUser ELSE me
    /\ isLoading' = FALSE
    /\ auth' = IdleAuth
    /\ wire' = <<>> /\ last401' = FALSE /\ loginReturned' = "none"
    /\ UNCHANGED <<sessEnv, inflight>>

\* fetchMeWithBuster (lines 56-65): the admin-me request fails, the agent-me
\* request is sent
bootMe1Fails(status) ==
    /\ auth.pc = "bootMe1"
    /\ ls' = afterRejected(ls, status)
    /\ wire' = <<httpRequestOf(afterRejected(ls, status), "/api/agent/me")>>
    /\ last401' = (status = 401)
    /\ auth' = [auth EXCEPT !.pc = "bootMe2"]
    /\ loginReturned' = "none"
    /\ UNCHANGED <<authUser, isLoading, sessEnv, inflight>>

\* bootMe2Fails without the inner try/catch of lines 92-102: the session is
\* dropped whether or not a companyId was stored
bootMe2FailsAlwaysDrops(status) ==
    /\ auth.pc = "bootMe2"
    /\ ls' = ClearedStore
    /\ authUser' = NoUserObject
    /\ isLoading' = FALSE
    /\ auth' = IdleAuth
    /\ wire' = <<>>
    /\ last401' = (status = 401)
    /\ loginReturned' = "none"
    /\ UNCHANGED <<sessEnv, inflight>>

\* both failed: ignored when a companyId was stored (lines 100-102), the
\* session is dropped otherwise (lines 104-108)
bootMe2Fails(status) ==
    /\ auth.pc = "bootMe2"
    /\ IF auth.hadCompanyId
       THEN /\ ls' = afterRejected(ls, status)
            /\ UNCHANGED authUser
       ELSE /\ ls' = ClearedStore
            /\ authUser' = NoUserObject
    /\ isLoading' = FALSE
    /\ auth' = IdleAuth
    /\ wire' = <<>>
    /\ last401' = (status = 401)
    /\ loginReturned' = "none"
    /\ UNCHANGED <<sessEnv, inflight>>

\* ---- login (lines 116-163)

loginStart ==
    /\ auth.pc = "ready"
    /\ auth' = AuthAt("login1", FALSE, IdleAuth.data)
    /\ wire' = <<httpRequestOf(ls, "/api/auth/login")>>
    /\ last401' = FALSE /\ loginReturned' = "none"
    /\ UNCHANGED <<ls, authUser, isLoading, sessEnv, inflight>>

\* the admin login failed: the agent login is tried (lines 120-124)
login1Fails(status) ==
    /\ auth.pc = "login1"
    /\ ls' = afterRejected(ls, status)
    /\ wire' = <<httpRequestOf(afterRejected(ls, status), "/api/agent/login")>>
    /\ last401' = (status = 401)
    /\ auth' = [auth EXCEPT !.pc = "login2"]
    /\ loginReturned' = "none"
    /\ UNCHANGED <<authUser, isLoading, sessEnv, inflight>>

\* the catch of login (lines 156-162)
loginCaught(status) ==
    /\ ls' = ClearedStore
    /\ auth' = IdleAuth
    /\ wire' = <<>>
    /\ last401' = (status = 401)
    /\ loginReturned' = "false"
    /\ UNCHANGED <<authUser, isLoading, sessEnv, inflight>>

login2Fails(status) ==
    /\ auth.pc = "login2"
    /\ loginCaught(status)

\* a login request answers with data (lines 126-136)
loginOk(data) ==
    /\ auth.pc \in {"login1", "login2"}
    /\ IF data.token = Null \/ data.token = <<>>
       THEN /\ auth' = IdleAuth
            /\ wire' = <<>>
            /\ loginReturned' = "false"
            /\ UNCHANGED ls
       ELSE /\ ls' = saveCompanyIdIfAny([ls EXCEPT !.token = data.token], data.user)
            /\ auth' = AuthAt("loginMe1", extractCompanyId(data.user) # Null, data)
            /\ wire' = <<httpRequestOf(saveCompanyIdIfAny([ls EXCEPT !.token = data.token], data.user),
                                       "/api/auth/me")>>
            /\ loginReturned' = "none"
    /\ last401' = FALSE
    /\ UNCHANGED <<authUser, isLoading, sessEnv, inflight>>

loginMe1Fails(status) ==
    /\ auth.pc = "loginMe1"
    /\ ls' = afterRejected(ls, status)
    /\ wire' = <<httpRequestOf(afterRejected(ls, status), "/api/agent/me")>>
    /\ last401' = (status = 401)
    /\ auth' = [auth EXCEPT !.pc = "loginMe2"]
    /\ loginReturned' = "none"
    /\ UNCHANGED <<authUser, isLoading, sessEnv, inflight>>

loginMe2Fails(status) ==
    /\ auth.pc = "loginMe2"
    /\ loginCaught(status)

\* the last-resort user of lines 143-150
minimalUserOf(data) ==
    IF data.user.isNull THEN UserRecord("minimal", Null) ELSE data.user

\* /me answers during login (lines 137-155)
loginMeOk(me) ==
    /\ auth.pc \in {"loginMe1", "loginMe2"}
    /\ IF ~me.isNull
       THEN /\ ls' = storeWithMe(ls, me)
            /\ authUser' = me
       ELSE IF ~auth.hadCompanyId
       THEN /\ ls' = [ls EXCEPT !.user = minimalUserOf(auth.data)]
            /\ authUser' = minimalUserOf(auth.data)
       ELSE UNCHANGED <<ls, authUser>>
    /\ auth' = IdleAuth
    /\ wire' = <<>>
    /\ last401' = FALSE
    /\ loginReturned' = "true"
    /\ UNCHANGED <<isLoading, sessEnv, inflight>>

\* ---- logout (lines 165-174)

logoutStart ==
    /\ auth.pc = "ready"
    /\ auth' = AuthAt("logout1", FALSE, IdleAuth.data)
    /\ wire' = <<httpRequestOf(ls, "/api/auth/logout")>>
    /\ last401' = FALSE /\ loginReturned' = "none"
    /\ UNCHANGED <<ls, authUser, isLoading, sessEnv, inflight>>

\* the logout request settles, with status 200 or a failure
logoutSettles(status) ==
    /\ auth.pc = "logout1"
    /\ ls' = ClearedStore
    /\ authUser' = NoUserObject
    /\ auth' = IdleAuth
    /\ wire' = <<>>
    /\ last401' = (status = 401)
    /\ loginReturned' = "none"
    /\ UNCHANGED <<isLoading, sessEnv, inflight>>

\* ---- requests of the components

\* A component calls http.get/post/put/delete (e.g. Bookings.fetchBookings)
componentRequest ==
    /\ inflight.http + inflight.fetch < MaxInflight
    /\ inflight' = [inflight EXCEPT !.http = @ + 1]
    /\ wire' = <<httpRequestOf(ls, "/api/bookings")>>
    /\ last401' = FALSE /\ loginReturned' = "none"
    /\ UNCHANGED <<ls, authUser, isLoading, auth, sessEnv>>

\* Its response arrives and passes the response interceptor
componentResponse(status) ==
    /\ inflight.http > 0
    /\ inflight' = [inflight EXCEPT !.http = @ - 1]
    /\ ls' = afterRejected(ls, status)
    /\ last401' = (status = 401)
    /\ wire' = <<>> /\ loginReturned' = "none"
    /\ UNCHANGED <<authUser, isLoading, auth, sessEnv>>

\* BookingEditor.handleSave (lines 535-565) posts with fetch
handleSave ==
    /\ inflight.http + inflight.fetch < MaxInflight
    /\ inflight' = [inflight EXCEPT !.fetch = @ + 1]
    /\ wire' = <<fetchRequestOf(ls, "/api/bookings")>>
    /\ last401' = FALSE /\ loginReturned' = "none"
    /\ UNCHANGED <<ls, authUser, isLoading, auth, sessEnv>>

\* Its response arrives: fetch has no interceptor
handleSaveResponse(status) ==
    /\ inflight.fetch > 0
    /\ inflight' = [inflight EXCEPT !.fetch = @ - 1]
    /\ wire' = <<>> /\ last401' = FALSE /\ loginReturned' = "none"
    /\ UNCHANGED <<ls, authUser, isLoading, auth, sessEnv>>

SessNext ==
    \/ bootStart /\ UNCHANGED notSessVars
    \/ \E me \in MeDatas : bootMeOk(me) /\ UNCHANGED notSessVars
    \/ \E st \in FailStatuses : bootMe1Fails(st) /\ UNCHANGED notSessVars
    \/ \E st \in FailStatuses : bootMe2Fails(st) /\ UNCHANGED notSessVars
    \/ loginStart /\ UNCHANGED notSessVars
    \/ \E st \in FailStatuses : login1Fails(st) /\ UNCHANGED notSessVars
    \/ \E st \in FailStatuses : login2Fails(st) /\ UNCHANGED notSessVars
    \/ \E data \in LoginDatas : loginOk(data) /\ UNCHANGED notSessVars
    \/ \E st \in FailStatuses : loginMe1Fails(st) /\ UNCHANGED notSessVars
    \/ \E st \in FailStatuses : loginMe2Fails(st) /\ UNCHANGED notSessVars
    \/ \E me \in MeDatas : loginMeOk(me) /\ UNCHANGED notSessVars
    \/ logoutStart /\ UNCHANGED notSessVars
    \/ \E st \in {200} \cup FailStatuses : logoutSettles(st) /\ UNCHANGED notSessVars
    \/ componentRequest /\ UNCHANGED notSessVars
    \/ \E st \in {200} \cup FailStatuses : componentResponse(st) /\ UNCHANGED notSessVars
    \/ handleSave /\ UNCHANGED notSessVars
    \/ \E st \in {200} \cup FailStatuses : handleSaveResponse(st) /\ UNCHANGED notSessVars

----------------------------------------------------------------------------
\* Bookings list view (Bookings.tsx 260-323). A UiBooking is modelled by its
\* id: the list operations below look at no other field.

\* The ids of the bookings, in the order in which the server lists them
BookingIds == <<"b1", "b2", "b3">>
IdSet == { BookingIds[k] : k \in 1..Len(BookingIds) }

\* The server before the view is mounted: b1 and b2 exist, b3 is yet to be
\* created
ServerAtMount == [b \in IdSet |-> IF b = "b3" THEN "absent" ELSE "live"]

InList(b, list) == \E k \in 1..Len(list) : list[k] = b

\* s without its k-th element
DropAt(s, k) == SubSeq(s, 1, k - 1) \o SubSeq(s, k + 1, Len(s))

\* p.filter((b) => b.id !== id)
withoutId(p, id) == SelectSeq(p, LAMBDA b : b # id)

\* list.map(mapBooking) of the server's answer: the live bookings
serverList(srv) == SelectSeq(BookingIds, LAMBDA b : srv[b] = "live")

\* line 286
listUrl == IF listIsAdmin THEN "/api/bookings" ELSE "/api/bookings/my"

GetCall(url) == [call |-> "GET", target |-> url]
DeleteCall(id) == [call |-> "DELETE", target |-> id]

\* The failures of the list request, as for a create-request
LoadErrors ==
    { [dataMessage |-> "Forbidden", dataString |-> "", message |-> "Request failed with status code 403"],
      [dataMessage |-> "", dataString |-> "", message |-> "Network Error"] }

\* lines 291-295
loadErrorOf(e) ==
    IF e.dataMessage # "" THEN e.dataMessage
    ELSE IF e.dataString # "" THEN e.dataString
    ELSE IF e.message # "" THEN e.message
    ELSE "Failed to load bookings"

ListInit ==
    /\ uiBookings = <<>>
    /\ listLoading = FALSE
    /\ listErr = ""
    /\ listIsAdmin \in BOOLEAN
    /\ server = ServerAtMount
    /\ toReport = {}
    /\ dels = <<>>
    /\ gets = <<>>
    /\ listCalls = <<>>
    /\ alerted = FALSE

ListIdle ==
    /\ uiBookings = <<>> /\ listLoading = FALSE /\ listErr = ""
    /\ listIsAdmin = FALSE /\ server = ServerAtMount /\ toReport = {}
    /\ dels = <<>> /\ gets = <<>> /\ listCalls = <<>> /\ alerted = FALSE

\* fetchBookings up to its await (lines 282-287): called on mount and when
\* a modal closes
fetchBookings ==
    /\ Len(gets) < MaxFetches
    /\ listLoading' = TRUE
    /\ listErr' = ""
    /\ gets' = Append(gets, [pc |-> "sent", list |-> <<>>])
    /\ listCalls' = <<GetCall(listUrl)>>
    /\ alerted' = FALSE
    /\ UNCHANGED <<uiBookings, listIsAdmin, server, toReport, dels>>

\* The server answers a list request with the bookings it holds then
serverAnswersGet(k) ==
    /\ gets[k].pc = "sent"
    /\ gets' = [gets EXCEPT ![k] = [pc |-> "answered", list |-> serverList(server)]]
    /\ listCalls' = <<>>
    /\ alerted' = FALSE
    /\ UNCHANGED <<uiBookings, listLoading, listErr, listIsAdmin, server, toReport, dels>>

\* lines 288-289 and 297-299: the answer arrives and replaces the list
fetchSucceeds(k) ==
    /\ gets[k].pc = "answered"
    /\ uiBookings' = gets[k].list
    /\ listLoading' = FALSE
    /\ gets' = DropAt(gets, k)
    /\ listCalls' = <<>>
    /\ alerted' = FALSE
    /\ UNCHANGED <<listErr, listIsAdmin, server, toReport, dels>>

\* lines 290-299: the list request fails
fetchFails(k, e) ==
    /\ k \in 1..Len(gets)
    /\ listErr' = loadErrorOf(e)
    /\ listLoading' = FALSE
    /\ gets' = DropAt(gets, k)
    /\ listCalls' = <<>>
    /\ alerted' = FALSE
    /\ UNCHANGED <<uiBookings, listIsAdmin, server, toReport, dels>>

\* The wizard's create-request for a new booking succeeds on the server;
\* its onSubmit call is due
serverCreates(id) ==
    /\ server[id] = "absent"
    /\ server' = [server EXCEPT ![id] = "live"]
    /\ toReport' = toReport \cup {id}
    /\ listCalls' = <<>>
    /\ alerted' = FALSE
    /\ UNCHANGED <<uiBookings, listLoading, listErr, listIsAdmin, dels, gets>>

\* lines 307-310: setBookings((prev) => [ui, ...prev])
handleCreateBooking(id) ==
    /\ id \in toReport
    /\ uiBookings' = <<id>> \o uiBookings
    /\ toReport' = toReport \ {id}
    /\ listCalls' = <<>>
    /\ alerted' = FALSE
    /\ UNCHANGED <<listLoading, listErr, listIsAdmin, server, dels, gets>>

\* handleDelete without the rollback of line 320
deleteFailsAlertOnly(k) ==
    /\ k \in 1..Len(dels)
    /\ alerted' = TRUE
    /\ dels' = DropAt(dels, k)
    /\ listCalls' = <<>>
    /\ UNCHANGED <<uiBookings, listLoading, listErr, listIsAdmin, server, toReport, gets>>

\* lines 312-318: the Delete button of a listed booking is pressed and
\* window.confirm answers yes; prev is the list of the render that shows
\* the button
handleDelete(id, yes) ==
    /\ InList(id, uiBookings)
    /\ IF yes
       THEN /\ Len(dels) < MaxDeletes
            /\ dels' = Append(dels, [id |-> id, prev |-> uiBookings])
            /\ uiBookings' = withoutId(uiBookings, id)
            /\ listCalls' = <<DeleteCall(id)>>
       ELSE /\ listCalls' = <<>>
            /\ UNCHANGED <<dels, uiBookings>>
    /\ alerted' = FALSE
    /\ UNCHANGED <<listLoading, listErr, listIsAdmin, server, toReport, gets>>

\* line 318: the DELETE request succeeds; nothing follows the await
deleteSucceeds(k) ==
    /\ k \in 1..Len(dels)
    /\ server[dels[k].id] = "live"
    /\ server' = [server EXCEPT ![dels[k].id] = "deleted"]
    /\ dels' = DropAt(dels, k)
    /\ listCalls' = <<>>
    /\ alerted' = FALSE
    /\ UNCHANGED <<uiBookings, listLoading, listErr, listIsAdmin, toReport, gets>>

\* lines 319-322: the DELETE request fails
deleteFails(k) ==
    /\ k \in 1..Len(dels)
    /\ uiBookings' = dels[k].prev
    /\ alerted' = TRUE
    /\ dels' = DropAt(dels, k)
    /\ listCalls' = <<>>
    /\ UNCHANGED <<listLoading, listErr, listIsAdmin, server, toReport, gets>>

ListNext ==
    \/ fetchBookings /\ UNCHANGED notListVars
    \/ \E k \in 1..Len(gets) : serverAnswersGet(k) /\ UNCHANGED notListVars
    \/ \E k \in 1..Len(gets) : fetchSucceeds(k) /\ UNCHANGED notListVars
    \/ \E k \in 1..Len(gets), e \in LoadErrors : fetchFails(k, e) /\ UNCHANGED notListVars
    \/ \E id \in IdSet : serverCreates(id) /\ UNCHANGED notListVars
    \/ \E id \in IdSet : handleCreateBooking(id) /\ UNCHANGED notListVars
    \/ \E id \in IdSet, yes \in BOOLEAN : handleDelete(id, yes) /\ UNCHANGED notListVars
    \/ \E k \in 1..Len(dels) : deleteSucceeds(k) /\ UNCHANGED notListVars
    \/ \E k \in 1..Len(dels) : deleteFails(k) /\ UNCHANGED notListVars

----------------------------------------------------------------------------
\* mapBooking (Bookings.tsx 197-254) and toNumberMaybe (72-79), for the
\* customer, email and amount of the view-model; the other fields are
\* computed from other fields of the record in the same way

\* A value of the API record: undefined (the field is absent), null, a
\* number (NaN standing for every non-finite number), a string, or
\* something else (an object, an array, a boolean)
JsUndefined == [t |-> "undefined", n |-> 0, s |-> <<>>]
JsNull == [t |-> "null", n |-> 0, s |-> <<>>]
JsNumber(n) == [t |-> "number", n |-> n, s |-> <<>>]
JsString(s) == [t |-> "string", n |-> 0, s |-> s]
JsOther == [t |-> "other", n |-> 0, s |-> <<>>]

IsNullish(v) == v.t \in {"undefined", "null"}

\* a ?? b
NullishOr(a, b) == IF IsNullish(a) THEN b ELSE a

\* a || b on numbers that are not NaN
NumberOr(a, b) == IF a = 0 THEN b ELSE a

\* b?.pricing: undefined, null, or an object with a totalAmount
NoPricing(kind) == [kind |-> kind, totalAmount |-> JsUndefined]
PricingObject(total) == [kind |-> "object", totalAmount |-> total]

\* b?.f
FieldOf(b, f) == IF b.isNullish THEN JsUndefined ELSE b[f]

\* b?.pricing?.totalAmount
PricingTotalOf(b) ==
    IF b.isNullish \/ b.pricing.kind # "object" THEN JsUndefined
    ELSE b.pricing.totalAmount

\* toNumberMaybe of Bookings.tsx (lines 72-79)
toNumberMaybeOfUnknown(v) ==
    IF v.t = "number" THEN (IF v.n # NaN THEN v.n ELSE 0)
    ELSE IF v.t = "string"
         THEN LET n == Number(DollarCommaRemoved(v.s)) IN IF n # NaN THEN n ELSE 0
         ELSE 0

\* line 202
customerOf(b) ==
    NullishOr(FieldOf(b, "customerName"),
        NullishOr(FieldOf(b, "customer"), JsString(<<"U","n","k","n","o","w","n">>)))

\* line 203
emailOf(b) ==
    NullishOr(FieldOf(b, "customerEmail"), NullishOr(FieldOf(b, "email"), JsString(<<>>)))

\* amountOf without the legacy totalAmount
amountOfNoLegacy(b) ==
    NumberOr(toNumberMaybeOfUnknown(FieldOf(b, "amount")),
        NumberOr(toNumberMaybeOfUnknown(PricingTotalOf(b)), 0))

\* lines 207-208
amountOf(b) ==
    NumberOr(toNumberMaybeOfUnknown(FieldOf(b, "amount")),
        NumberOr(toNumberMaybeOfUnknown(PricingTotalOf(b)),
            NumberOr(toNumberMaybeOfUnknown(FieldOf(b, "totalAmount")), 0)))

mapBooking(b) == [customer |-> customerOf(b), email |-> emailOf(b), amount |-> amountOf(b)]

\* The records mapBooking is applied to
MapNames == { JsUndefined, JsNull, JsString(<<"S","a","r","a">>) }
MapEmails == { JsUndefined, JsString(<<"s","@","x",".","p","k">>) }
MapAmounts ==
    { JsUndefined, JsNull, JsNumber(0), JsNumber(1500), JsNumber(NaN),
      JsString(<<"$","2",",","5","0","0">>), JsString(<<"a","b","c">>), JsOther }
MapPricings ==
    { NoPricing("undefined"), NoPricing("null") } \cup { PricingObject(t) : t \in MapAmounts }

ApiRecord(cn, c, ce, e, a, p, t) ==
    [isNullish |-> FALSE, customerName |-> cn, customer |-> c, customerEmail |-> ce,
     email |-> e, amount |-> a, pricing |-> p, totalAmount |-> t]

\* mapBooking(null), mapBooking(undefined)
NullishRecord ==
    [ApiRecord(JsUndefined, JsUndefined, JsUndefined, JsUndefined, JsUndefined,
               NoPricing("undefined"), JsUndefined) EXCEPT !.isNullish = TRUE]

MapInputs ==
    { ApiRecord(cn, c, ce, e, a, p, t) :
        cn \in MapNames, c \in MapNames, ce \in MapEmails, e \in MapEmails,
        a \in MapAmounts, p \in MapPricings, t \in MapAmounts }
    \cup { NullishRecord }

MapInit == mIn \in MapInputs /\ mOut = <<>>

MapIdle == mIn = NullishRecord /\ mOut = <<>>

\* One call mapBooking(mIn); no statement of it throws
callMapBooking ==
    /\ mOut = <<>>
    /\ mOut' = <<"returned", mapBooking(mIn)>>
    /\ UNCHANGED mIn

NextMapBooking == callMapBooking /\ UNCHANGED notMapVars

----------------------------------------------------------------------------
\* BookingEditor (src/unnamed/part_001 350-565 and 1040-1058): the PNR
\* input, the required booking details and Save

\* What can arrive in the PNR input, and in the four required detail inputs
EditorPnrInputs ==
    { <<>>,
      <<"a","b","-","1","2">>,
      <<"a","b","c","1","2">>,
      <<"a","b","c","1","2","d">>,
      <<"a","b"," ","1","2","!">>,
      <<"a","b","c","d","1","2","3","4">> }
EditorTextInputs == { <<>>, <<"x">> }

\* lines 353-356
cleanedPnr(v) == sliceFirst(toUpperCase(NotAlnumRemoved(v)), 6)

onPnrChange(v) ==
    /\ pnr' = cleanedPnr(v)
    /\ saveReq' = <<>>
    /\ UNCHANGED <<customerName, customerEmail, bookingPackage, travelDate,
                   saving, saveError, saveOk>>

\* line 357
isPnrValid == Len(pnr) = 5

\* lines 527-531
canSave ==
    IF Len(pnr) # 6 THEN FALSE
    ELSE IF customerName = <<>> \/ customerEmail = <<>>
            \/ bookingPackage = <<>> \/ travelDate = <<>> THEN FALSE
    ELSE TRUE

\* disabled={saving || !canSave()} (line 1047)
saveDisabled == saving \/ ~canSave

\* the onChange handlers of the Booking Details inputs
setCustomerName(v) ==
    /\ customerName' = v /\ saveReq' = <<>>
    /\ UNCHANGED <<pnr, customerEmail, bookingPackage, travelDate, saving, saveError, saveOk>>
setCustomerEmail(v) ==
    /\ customerEmail' = v /\ saveReq' = <<>>
    /\ UNCHANGED <<pnr, customerName, bookingPackage, travelDate, saving, saveError, saveOk>>
setBookingPackage(v) ==
    /\ bookingPackage' = v /\ saveReq' = <<>>
    /\ UNCHANGED <<pnr, customerName, customerEmail, travelDate, saving, saveError, saveOk>>
setTravelDate(v) ==
    /\ travelDate' = v /\ saveReq' = <<>>
    /\ UNCHANGED <<pnr, customerName, customerEmail, bookingPackage, saving, saveError, saveOk>>

\* buildPayload (lines 494-525): the fields the backend requires and the PNR
buildPayload ==
    [customerName |-> customerName, customerEmail |-> customerEmail,
     package |-> bookingPackage, date |-> travelDate, pnr |-> pnr]

\* handleSave up to its await (lines 535-550), started by the Save button
clickSave ==
    /\ ~saveDisabled
    /\ saving' = TRUE
    /\ saveError' = <<>>
    /\ saveOk' = <<>>
    /\ saveReq' = <<[request |-> fetchRequestOf(ls, "/api/bookings"), body |-> buildPayload]>>
    /\ UNCHANGED <<pnr, customerName, customerEmail, bookingPackage, travelDate>>

\* What fetch can settle with: a 2xx response, a response that is not ok
\* with its body text, or a rejection with an Error
SaveOutcomes ==
    { [ok |-> TRUE, status |-> 201, text |-> "", rejected |-> FALSE],
      [ok |-> FALSE, status |-> 400, text |-> "customerEmail is invalid", rejected |-> FALSE],
      [ok |-> FALSE, status |-> 500, text |-> "", rejected |-> FALSE],
      [ok |-> FALSE, status |-> 0, text |-> "Failed to fetch", rejected |-> TRUE] }

\* `Request failed: ${res.status}` (line 553)
requestFailedText(status) ==
    IF status = 400 THEN "Request failed: 400" ELSE "Request failed: 500"

\* the message of the Error caught at line 557
saveErrorOf(o) ==
    IF o.rejected THEN o.text
    ELSE IF o.text # "" THEN o.text ELSE requestFailedText(o.status)

\* saveSettles with the finally of lines 561-563 left out
saveSettlesKeepsSaving(o) ==
    /\ saving
    /\ IF o.ok
       THEN saveOk' = <<"Booking saved successfully.">> /\ UNCHANGED saveError
       ELSE saveError' = <<saveErrorOf(o)>> /\ UNCHANGED saveOk
    /\ saveReq' = <<>>
    /\ UNCHANGED <<saving, pnr, customerName, customerEmail, bookingPackage, travelDate>>

\* handleSave after its await (lines 551-564)
saveSettles(o) ==
    /\ saving
    /\ IF o.ok
       THEN saveOk' = <<"Booking saved successfully.">> /\ UNCHANGED saveError
       ELSE saveError' = <<saveErrorOf(o)>> /\ UNCHANGED saveOk
    /\ saving' = FALSE
    /\ saveReq' = <<>>
    /\ UNCHANGED <<pnr, customerName, customerEmail, bookingPackage, travelDate>>

EdInit ==
    /\ pnr = <<>> /\ customerName = <<>> /\ customerEmail = <<>>
    /\ bookingPackage = <<>> /\ travelDate = <<>>
    /\ saving = FALSE /\ saveError = <<>> /\ saveOk = <<>> /\ saveReq = <<>>

EdIdle == EdInit

\* the session as stored when the editor is mounted
SessStored ==
    /\ ls \in {ClearedStore, [ClearedStore EXCEPT !.token = TokenOld]}
    /\ authUser = NoUserObject /\ isLoading = TRUE
    /\ auth = AuthAt("boot", FALSE, IdleAuth.data)
    /\ urlCompanyId = Null /\ envCompanyId = Null
    /\ inflight = [http |-> 0, fetch |-> 0]
    /\ wire = <<>> /\ last401 = FALSE /\ loginReturned = "none"

EdNext ==
    \/ \E v \in EditorPnrInputs : onPnrChange(v) /\ UNCHANGED <<notEdVars, sessVars>>
    \/ \E v \in EditorTextInputs : setCustomerName(v) /\ UNCHANGED <<notEdVars, sessVars>>
    \/ \E v \in EditorTextInputs : setCustomerEmail(v) /\ UNCHANGED <<notEdVars, sessVars>>
    \/ \E v \in EditorTextInputs : setBookingPackage(v) /\ UNCHANGED <<notEdVars, sessVars>>
    \/ \E v \in EditorTextInputs : setTravelDate(v) /\ UNCHANGED <<notEdVars, sessVars>>
    \/ clickSave /\ UNCHANGED <<notEdVars, sessVars>>
    \/ \E o \in SaveOutcomes : saveSettles(o) /\ UNCHANGED <<notEdVars, sessVars>>

----------------------------------------------------------------------------
\* Bookings.handleDownloadPDF (Bookings.tsx 405-453). One run per booking
\* is followed at a time.

\* What GET /api/bookings/:id?expand=all can answer with: a booking object,
\* or a body that is null or ''
ExpandedDatas == { "full", "partial", "" }

ExpandCall(id) == [call |-> "GET", target |-> id, route |-> "?expand=all", body |-> ""]
PdfV2Call(id, full) == [call |-> "POST", target |-> id, route |-> "/pdf?v=2", body |-> full]
LegacyPdfCall(id) == [call |-> "GET", target |-> id, route |-> "/pdf", body |-> ""]

PdfAt(pc, full) == [pc |-> pc, full |-> full]
PdfIdleRun == PdfAt("idle", "")

pdfQuiet == pdfSaved' = <<>> /\ pdfAlert' = FALSE

\* the Download button of a row (line 1109): up to the first await
handleDownloadPDF(bookingId) ==
    /\ InList(bookingId, uiBookings)
    /\ pdf[bookingId].pc = "idle"
    /\ pdf' = [pdf EXCEPT ![bookingId] = PdfAt("expanding", "")]
    /\ pdfCalls' = <<ExpandCall(bookingId)>>
    /\ pdfQuiet

\* lines 416-436: the legacy request is sent
legacyFallback(bookingId) ==
    /\ pdf' = [pdf EXCEPT ![bookingId] = PdfAt("legacy", "")]
    /\ pdfCalls' = <<LegacyPdfCall(bookingId)>>
    /\ pdfQuiet

\* the expanded fetch answers (lines 411-420)
expandReturns(bookingId, data) ==
    /\ pdf[bookingId].pc = "expanding"
    /\ IF data # ""
       THEN /\ pdf' = [pdf EXCEPT ![bookingId] = PdfAt("posting", data)]
            /\ pdfCalls' = <<PdfV2Call(bookingId, data)>>
            /\ pdfQuiet
       ELSE legacyFallback(bookingId)

\* the expanded fetch fails (lines 413-415)
expandFails(bookingId) ==
    /\ pdf[bookingId].pc = "expanding"
    /\ legacyFallback(bookingId)

\* link.click() on the blob of the response (lines 422-429 and 439-446)
savePdf(bookingId) ==
    /\ pdf' = [pdf EXCEPT ![bookingId] = PdfIdleRun]
    /\ pdfCalls' = <<>>
    /\ pdfSaved' = <<bookingId>>
    /\ pdfAlert' = FALSE

postV2Succeeds(bookingId) ==
    /\ pdf[bookingId].pc = "posting"
    /\ savePdf(bookingId)

\* the outer catch (lines 447-450)
pdfCaught(bookingId) ==
    /\ pdf' = [pdf EXCEPT ![bookingId] = PdfIdleRun]
    /\ pdfCalls' = <<>>
    /\ pdfSaved' = <<>>
    /\ pdfAlert' = TRUE

\* postV2Fails without the inner try/catch of lines 418-433
postV2FailsAlerts(bookingId) ==
    /\ pdf[bookingId].pc = "posting"
    /\ pdfCaught(bookingId)

\* the versioned POST fails (lines 431-433)
postV2Fails(bookingId) ==
    /\ pdf[bookingId].pc = "posting"
    /\ legacyFallback(bookingId)

legacySucceeds(bookingId) ==
    /\ pdf[bookingId].pc = "legacy"
    /\ savePdf(bookingId)

legacyFails(bookingId) ==
    /\ pdf[bookingId].pc = "legacy"
    /\ pdfCaught(bookingId)

PdfInit ==
    /\ pdf = [b \in IdSet |-> PdfIdleRun]
    /\ pdfCalls = <<>> /\ pdfSaved = <<>> /\ pdfAlert = FALSE

PdfIdle == PdfInit

\* the list as shown when a download is started
ListShown ==
    /\ uiBookings \in { <<"b1">>, <<"b1", "b2">>, <<"b2", "b1">> }
    /\ listLoading = FALSE /\ listErr = ""
    /\ listIsAdmin = FALSE /\ server = ServerAtMount /\ toReport = {}
    /\ dels = <<>> /\ gets = <<>> /\ listCalls = <<>> /\ alerted = FALSE

PdfNext ==
    \/ \E b \in IdSet : handleDownloadPDF(b) /\ UNCHANGED notPdfVars
    \/ \E b \in IdSet, data \in ExpandedDatas : expandReturns(b, data) /\ UNCHANGED notPdfVars
    \/ \E b \in IdSet : expandFails(b) /\ UNCHANGED notPdfVars
    \/ \E b \in IdSet : postV2Succeeds(b) /\ UNCHANGED notPdfVars
    \/ \E b \in IdSet : postV2Fails(b) /\ UNCHANGED notPdfVars
    \/ \E b \in IdSet : legacySucceeds(b) /\ UNCHANGED notPdfVars
    \/ \E b \in IdSet : legacyFails(b) /\ UNCHANGED notPdfVars

----------------------------------------------------------------------------
\* Inquiries (src/src/components/BarChart.tsx 609-755). The data context
\* (context/DataContext) is not part of the sources: its fetchInquiries is
\* modelled as a request for the list whose answer replaces the context's
\* inquiries. One run of each of respond, closeInquiry and assignInquiry is
\* followed at a time, on one inquiry.

InquiryIds == {"q1"}
NoInquiry == ""

\* The server before the view is mounted
InqServerAtMount == [q \in InquiryIds |-> "pending"]
InqServersAtMount == [InquiryIds -> {"pending", "responded"}]

\* What can be typed into the response form, and the agents on offer
ResponseTexts == { <<" ">>, <<"o","k">> }
AgentIds == {"", "a1"}

RespondCall(q, text) == [call |-> "POST", target |-> q, route |-> "/respond", body |-> <<"message", text>>]
StatusCall(q, status) == [call |-> "PUT", target |-> q, route |-> "", body |-> <<"status", status>>]
UnassignCall(q) == [call |-> "PUT", target |-> q, route |-> "", body |-> <<"assignedAgent", "">>]
AssignCall(q, agent) == [call |-> "POST", target |-> q, route |-> "/assign", body |-> <<"assignedAgent", agent>>]
ListInquiriesCall == [call |-> "GET", target |-> NoInquiry, route |-> "", body |-> <<>>]

RunAt(pc, q, seen) == [pc |-> pc, id |-> q, seen |-> seen]
NoRun == RunAt("idle", NoInquiry, "none")

\* inquiries.find(i => i.id === inquiryId)?.status in a list
statusIn(list, q) == list[q]

\* the rows whose Respond and Close buttons are shown (lines 1055, 1064); a
\* user who is no admin is the assigned agent of the inquiries listed
respondShown(q) == inquiries[q] \notin {"none", "closed"}
closeShown(q) == inqIsAdmin /\ inquiries[q] \notin {"none", "closed"}

\* fetchInquiries of the data context has answered: the context's list is
\* the server's
fetchInquiries == inquiries' = inqServer

\* the effect of line 632-634 and of the other views' refreshes
contextRefreshes ==
    /\ inquiries # inqServer
    /\ fetchInquiries
    /\ inqCalls' = <<>>
    /\ UNCHANGED <<inqServer, inqIsAdmin, inqLoading, inqErr, respondingTo,
                   responseText, assigningTo, selectedAgentId, resp, clo, asg>>

\* lines 636-639
startResponse(q) ==
    /\ respondShown(q)
    /\ respondingTo' = q
    /\ responseText' = <<>>
    /\ inqCalls' = <<>>
    /\ UNCHANGED <<inquiries, inqServer, inqIsAdmin, inqLoading, inqErr,
                   assigningTo, selectedAgentId, resp, clo, asg>>

\* lines 640-643
cancelResponse ==
    /\ respondingTo # NoInquiry
    /\ respondingTo' = NoInquiry
    /\ responseText' = <<>>
    /\ inqCalls' = <<>>
    /\ UNCHANGED <<inquiries, inqServer, inqIsAdmin, inqLoading, inqErr,
                   assigningTo, selectedAgentId, resp, clo, asg>>

\* line 1277
setResponseText(v) ==
    /\ respondingTo # NoInquiry
    /\ responseText' = v
    /\ inqCalls' = <<>>
    /\ UNCHANGED <<inquiries, inqServer, inqIsAdmin, inqLoading, inqErr,
                   respondingTo, assigningTo, selectedAgentId, resp, clo, asg>>

\* submitResponse (lines 683-686) and respond up to its first await (lines
\* 650-654): the run keeps the inquiries of the render it was started in
submitResponse ==
    /\ respondingTo # NoInquiry
    /\ trim(responseText) # <<>>
    /\ resp.pc = "idle"
    /\ resp' = RunAt("posting", respondingTo, statusIn(inquiries, respondingTo))
    /\ inqCalls' = <<RespondCall(respondingTo, trim(responseText))>>
    /\ UNCHANGED <<inquiries, inqServer, inqIsAdmin, inqLoading, inqErr,
                   respondingTo, responseText, assigningTo, selectedAgentId, clo, asg>>

\* the catch of respond (lines 666-669), after which submitResponse clears
\* the form (lines 687-688)
respondCaught ==
    /\ inqErr' = "Failed to send response. Please try again."
    /\ resp' = NoRun
    /\ respondingTo' = NoInquiry
    /\ responseText' = <<>>
    /\ inqCalls' = <<>>
    /\ UNCHANGED <<inquiries, inqServer, inqIsAdmin, inqLoading,
                   assigningTo, selectedAgentId, clo, asg>>

\* the respond request has succeeded (lines 656-665)
respondPosted ==
    /\ resp.pc = "posting"
    /\ IF inqIsAdmin /\ resp.seen = "pending"
       THEN /\ resp' = [resp EXCEPT !.pc = "putting"]
            /\ inqCalls' = <<StatusCall(resp.id, "responded")>>
       ELSE /\ resp' = [resp EXCEPT !.pc = "refreshing"]
            /\ inqCalls' = <<ListInquiriesCall>>
    /\ UNCHANGED <<inquiries, inqServer, inqIsAdmin, inqLoading, inqErr,
                   respondingTo, responseText, assigningTo, selectedAgentId, clo, asg>>

respondPostFails ==
    /\ resp.pc = "posting"
    /\ respondCaught

\* the status update of respond has succeeded (lines 660, 665)
respondPutOk ==
    /\ resp.pc = "putting"
    /\ inqServer' = [inqServer EXCEPT ![resp.id] = "responded"]
    /\ resp' = [resp EXCEPT !.pc = "refreshing"]
    /\ inqCalls' = <<ListInquiriesCall>>
    /\ UNCHANGED <<inquiries, inqIsAdmin, inqLoading, inqErr, respondingTo,
                   responseText, assigningTo, selectedAgentId, clo, asg>>

respondPutFails ==
    /\ resp.pc = "putting"
    /\ respondCaught

\* the refresh of respond has ended (line 665), then lines 687-688
respondRefreshed ==
    /\ resp.pc = "refreshing"
    /\ fetchInquiries
    /\ resp' = NoRun
    /\ respondingTo' = NoInquiry
    /\ responseText' = <<>>
    /\ inqCalls' = <<>>
    /\ UNCHANGED <<inqServer, inqIsAdmin, inqLoading, inqErr,
                   assigningTo, selectedAgentId, clo, asg>>

respondRefreshFails ==
    /\ resp.pc = "refreshing"
    /\ respondCaught

\* closeInquiry up to its await (lines 672-674)
closeInquiry(q) ==
    /\ closeShown(q)
    /\ clo.pc = "idle"
    /\ clo' = RunAt("putting", q, statusIn(inquiries, q))
    /\ inqCalls' = <<StatusCall(q, "closed")>>
    /\ UNCHANGED <<inquiries, inqServer, inqIsAdmin, inqLoading, inqErr, respondingTo,
                   responseText, assigningTo, selectedAgentId, resp, asg>>

\* the catch of closeInquiry (lines 677-680)
closeCaught ==
    /\ inqErr' = "Failed to close inquiry. Please try again."
    /\ clo' = NoRun
    /\ inqCalls' = <<>>
    /\ UNCHANGED <<inquiries, inqServer, inqIsAdmin, inqLoading, respondingTo,
                   responseText, assigningTo, selectedAgentId, resp, asg>>

closePutOk ==
    /\ clo.pc = "putting"
    /\ inqServer' = [inqServer EXCEPT ![clo.id] = "closed"]
    /\ clo' = [clo EXCEPT !.pc = "refreshing"]
    /\ inqCalls' = <<ListInquiriesCall>>
    /\ UNCHANGED <<inquiries, inqIsAdmin, inqLoading, inqErr, respondingTo,
                   responseText, assigningTo, selectedAgentId, resp, asg>>

closePutFails ==
    /\ clo.pc = "putting"
    /\ closeCaught

closeRefreshed ==
    /\ clo.pc = "refreshing"
    /\ fetchInquiries
    /\ clo' = NoRun
    /\ inqCalls' = <<>>
    /\ UNCHANGED <<inqServer, inqIsAdmin, inqLoading, inqErr, respondingTo,
                   responseText, assigningTo, selectedAgentId, resp, asg>>

closeRefreshFails ==
    /\ clo.pc = "refreshing"
    /\ closeCaught

\* lines 735-738: the Assign button of a row, shown to admins (line 1039)
handleAssignClick(q) ==
    /\ inqIsAdmin
    /\ inquiries[q] # "none"
    /\ assigningTo # q
    /\ assigningTo' = q
    /\ selectedAgentId' = ""
    /\ inqCalls' = <<>>
    /\ UNCHANGED <<inquiries, inqServer, inqIsAdmin, inqLoading, inqErr,
                   respondingTo, responseText, resp, clo, asg>>

\* the agent select of the assignment form
selectAgent(a) ==
    /\ assigningTo # NoInquiry
    /\ selectedAgentId # a
    /\ selectedAgentId' = a
    /\ inqCalls' = <<>>
    /\ UNCHANGED <<inquiries, inqServer, inqIsAdmin, inqLoading, inqErr, respondingTo,
                   responseText, assigningTo, resp, clo, asg>>

\* lines 1240-1244: Cancel of the assignment form, disabled while loading
handleCancelAssign ==
    /\ assigningTo # NoInquiry
    /\ ~inqLoading
    /\ assigningTo' = NoInquiry
    /\ selectedAgentId' = ""
    /\ inqErr' = ""
    /\ inqCalls' = <<>>
    /\ UNCHANGED <<inquiries, inqServer, inqIsAdmin, inqLoading,
                   respondingTo, responseText, resp, clo, asg>>

\* handleConfirmAssign (lines 745-755) and assignInquiry up to its await
\* (lines 694-720); the button is disabled while loading
handleConfirmAssign ==
    /\ assigningTo # NoInquiry
    /\ ~inqLoading
    /\ inqLoading' = TRUE
    /\ inqErr' = ""
    /\ asg' = RunAt("sending", assigningTo, statusIn(inquiries, assigningTo))
    /\ inqCalls' = IF selectedAgentId = ""
                   THEN <<UnassignCall(assigningTo)>>
                   ELSE <<AssignCall(assigningTo, selectedAgentId)>>
    /\ UNCHANGED <<inquiries, inqServer, inqIsAdmin, respondingTo, responseText,
                   assigningTo, selectedAgentId, resp, clo>>

\* error?.response?.data?.message || 'Failed to assign inquiry. ...'
AssignFailures == { "", "Agent not found" }
assignMessageOf(message) ==
    IF message # "" THEN message ELSE "Failed to assign inquiry. Please try again."

\* the catch and the finally of assignInquiry (lines 725-732)
assignCaught(message) ==
    /\ inqErr' = assignMessageOf(message)
    /\ inqLoading' = FALSE
    /\ asg' = NoRun
    /\ inqCalls' = <<>>
    /\ UNCHANGED <<inquiries, inqServer, inqIsAdmin, respondingTo, responseText,
                   assigningTo, selectedAgentId, resp, clo>>

\* the assign or unassign request has succeeded (line 721)
assignSent ==
    /\ asg.pc = "sending"
    /\ asg' = [asg EXCEPT !.pc = "refreshing"]
    /\ inqCalls' = <<ListInquiriesCall>>
    /\ UNCHANGED <<inquiries, inqServer, inqIsAdmin, inqLoading, inqErr, respondingTo,
                   responseText, assigningTo, selectedAgentId, resp, clo>>

assignFails(message) ==
    /\ asg.pc = "sending"
    /\ assignCaught(message)

\* lines 721-724 and 730-732
assignRefreshed ==
    /\ asg.pc = "refreshing"
    /\ fetchInquiries
    /\ assigningTo' = NoInquiry
    /\ selectedAgentId' = ""
    /\ inqErr' = ""
    /\ inqLoading' = FALSE
    /\ asg' = NoRun
    /\ inqCalls' = <<>>
    /\ UNCHANGED <<inqServer, inqIsAdmin, respondingTo, responseText, resp, clo>>

assignRefreshFails ==
    /\ asg.pc = "refreshing"
    /\ assignCaught("")

InqInit ==
    /\ inqServer \in InqServersAtMount
    /\ inquiries = inqServer
    /\ inqIsAdmin \in BOOLEAN
    /\ inqLoading = FALSE /\ inqErr = ""
    /\ respondingTo = NoInquiry /\ responseText = <<>>
    /\ assigningTo = NoInquiry /\ selectedAgentId = ""
    /\ resp = NoRun /\ clo = NoRun /\ asg = NoRun
    /\ inqCalls = <<>>

InqIdle ==
    /\ inquiries = [q \in InquiryIds |-> "none"]
    /\ inqServer = InqServerAtMount
    /\ inqIsAdmin = FALSE
    /\ inqLoading = FALSE /\ inqErr = ""
    /\ respondingTo = NoInquiry /\ responseText = <<>>
    /\ assigningTo = NoInquiry /\ selectedAgentId = ""
    /\ resp = NoRun /\ clo = NoRun /\ asg = NoRun
    /\ inqCalls = <<>>

NoneMounted == mounted = "none"
MoreIdle == EdIdle /\ PdfIdle /\ InqIdle /\ NoneMounted

InqNext ==
    \/ contextRefreshes /\ UNCHANGED notInqVars
    \/ \E q \in InquiryIds : startResponse(q) /\ UNCHANGED notInqVars
    \/ cancelResponse /\ UNCHANGED notInqVars
    \/ \E v \in ResponseTexts : setResponseText(v) /\ UNCHANGED notInqVars
    \/ submitResponse /\ UNCHANGED notInqVars
    \/ respondPosted /\ UNCHANGED notInqVars
    \/ respondPostFails /\ UNCHANGED notInqVars
    \/ respondPutOk /\ UNCHANGED notInqVars
    \/ respondPutFails /\ UNCHANGED notInqVars
    \/ respondRefreshed /\ UNCHANGED notInqVars
    \/ respondRefreshFails /\ UNCHANGED notInqVars
    \/ \E q \in InquiryIds : closeInquiry(q) /\ UNCHANGED notInqVars
    \/ closePutOk /\ UNCHANGED notInqVars
    \/ closePutFails /\ UNCHANGED notInqVars
    \/ closeRefreshed /\ UNCHANGED notInqVars
    \/ closeRefreshFails /\ UNCHANGED notInqVars
    \/ \E q \in InquiryIds : handleAssignClick(q) /\ UNCHANGED notInqVars
    \/ \E a \in AgentIds : selectAgent(a) /\ UNCHANGED notInqVars
    \/ handleCancelAssign /\ UNCHANGED notInqVars
    \/ handleConfirmAssign /\ UNCHANGED notInqVars
    \/ assignSent /\ UNCHANGED notInqVars
    \/ \E message \in AssignFailures : assignFails(message) /\ UNCHANGED notInqVars
    \/ assignRefreshed /\ UNCHANGED notInqVars
    \/ assignRefreshFails /\ UNCHANGED notInqVars

----------------------------------------------------------------------------
\* The wizard's specification

Init == WizInit /\ PayIdle /\ SessIdle /\ ValIdle /\ ListIdle /\ MapIdle /\ MoreIdle

Next ==
    \/ OpenModal /\ UNCHANGED notWizVars
    \/ CloseModal /\ UNCHANGED notWizVars
    \/ \E ev \in InputEvents :
          handleInputChange(ev[1], ev[2]) /\ UNCHANGED notWizVars
    \/ handleNext /\ UNCHANGED notWizVars
    \/ handlePrevious /\ UNCHANGED notWizVars
    \/ \E index \in 0..LastStep : jumpToStep(index) /\ UNCHANGED notWizVars
    \/ swapCities /\ UNCHANGED notWizVars
    \/ addAnotherBooking /\ UNCHANGED notWizVars
    \/ \E index \in 0..(MaxSlots - 1) :
          switchToBooking(index) /\ UNCHANGED notWizVars
    \/ fillTestData /\ UNCHANGED notWizVars
    \/ clickCreateBooking /\ UNCHANGED notWizVars
    \/ pressEnterInOnlyTextField /\ UNCHANGED notWizVars
    \/ postSucceeds /\ UNCHANGED notWizVars
    \/ \E err \in PostErrors : postFails(err) /\ UNCHANGED notWizVars

Spec == Init /\ [][Next]_vars

----------------------------------------------------------------------------
\* buildBookingPayload as a pure function: inputs drawn from bounded sets

PayloadNames == { testData.name, <<" ">>, <<" ","A","l"," ">> }
PayloadEmails == { testData.email, <<>> }
PayloadPackages == { testData.package, <<" ">> }
PayloadAgents == { <<>>, <<"a","l","i">> }
PayloadCards ==
    { testData.cardNumber,
      <<"5","5","0","0","-","0","0","0","0","-","0","0","0","0","-","1","1","1","1">>,
      <<>> }
PayloadCvvs == { testData.cvv, <<"9","9","9">> }
PayloadAmounts ==
    { testData.totalAmount, <<"$","1",",","5","0","0">>, <<"a","b","c">>, <<>> }
PayloadDates == { Today, <<>> }

PayloadInputs ==
    { [testData EXCEPT !.name = n, !.email = e, !.package = p, !.agent = a,
                       !.cardNumber = c, !.cvv = v, !.totalAmount = t, !.date = d] :
        n \in PayloadNames, e \in PayloadEmails, p \in PayloadPackages,
        a \in PayloadAgents, c \in PayloadCards, v \in PayloadCvvs,
        t \in PayloadAmounts, d \in PayloadDates }

PayloadUsers ==
    { NullUser,
      UserObject(<<"a","7">>, <<"u","1">>, Undefined),
      UserObject(Undefined, <<"u","2">>, Undefined),
      UserObject(Undefined, Undefined, <<"o","3">>),
      UserObject(Undefined, Undefined, Undefined) }

WizIdle ==
    /\ isOpen = FALSE /\ currentStep = 0 /\ errors = NoErrors /\ serverError = <<>>
    /\ submitting = FALSE /\ bookings = <<>> /\ currentBookingIndex = 0
    /\ formData = empty /\ user = NullUser /\ sub = IdleSub /\ calls = <<>>
    /\ edits = 0 /\ posted = {}

PayInit ==
    /\ pIn \in PayloadInputs
    /\ pUser \in PayloadUsers
    /\ pOut = <<>>

\* One call buildBookingPayload(pIn, pUser): it throws, or returns the payload
callBuildBookingPayload ==
    /\ pOut = <<>>
    /\ pOut' = IF buildError(pIn) # ""
               THEN <<"threw", buildError(pIn)>>
               ELSE <<"returned", buildBookingPayload(pIn, pUser)>>
    /\ UNCHANGED <<pIn, pUser>>

InitPayload == WizIdle /\ PayInit /\ SessIdle /\ ValIdle /\ ListIdle /\ MapIdle /\ MoreIdle

NextPayload == callBuildBookingPayload /\ UNCHANGED notPayVars

SpecPayload == InitPayload /\ [][NextPayload]_vars

----------------------------------------------------------------------------
\* The session store and HTTP client's specification

InitSession == WizIdle /\ PayIdle /\ SessInit /\ ValIdle /\ ListIdle /\ MapIdle /\ MoreIdle

SpecSession == InitSession /\ [][SessNext]_vars

----------------------------------------------------------------------------
\* validateStepData as a function of its arguments: the inputs are drawn
\* in the initial state and one step applies it

ValidateNames == { testData.name, <<>>, <<" ">> }
ValidateCardholders == { testData.cardholderName, <<" ">> }
ValidateCities == { testData.departureCity, <<>> }
ValidateDates == { Today, <<>> }
ValidatePnrs ==
    { testData.pnr, <<>>, <<" ">>,
      <<"A","B","1","2","D">>,
      <<"a","b","c","1","2","d">>,
      <<"A","B","C","-","2","D">>,
      <<"A","B","C","1","2","D","E">>,
      <<"A","B","C","1","2","D"," ">>,
      <<" ","A","B","C","1","2","D">> }
ValidateAmounts == { testData.totalAmount, <<>> }
ValidatePackages == { testData.package, <<" ">> }

ValidateInputs ==
    { [testData EXCEPT !.name = n, !.cardholderName = h, !.departureCity = c,
                       !.returnDate = r, !.date = d, !.pnr = q,
                       !.totalAmount = t, !.package = k] :
        n \in ValidateNames, h \in ValidateCardholders, c \in ValidateCities,
        r \in ValidateDates, d \in ValidateDates, q \in ValidatePnrs,
        t \in ValidateAmounts, k \in ValidatePackages }

ValInit ==
    /\ vIn \in ValidateInputs
    /\ vId \in { StepIds[k] : k \in 1..Len(StepIds) }
    /\ vOut = <<>>

\* One call validateStepData(vIn, vId)
callValidateStepData ==
    /\ vOut = <<>>
    /\ vOut' = <<"returned", validateStepData(vIn, vId)>>
    /\ UNCHANGED <<vIn, vId>>

InitValidate == WizIdle /\ PayIdle /\ SessIdle /\ ValInit /\ ListIdle /\ MapIdle /\ MoreIdle

NextValidate == callValidateStepData /\ UNCHANGED notValVars

SpecValidate == InitValidate /\ [][NextValidate]_vars

----------------------------------------------------------------------------
\* The bookings list's specification

InitBookings == WizIdle /\ PayIdle /\ SessIdle /\ ValIdle /\ ListInit /\ MapIdle /\ MoreIdle

SpecBookings == InitBookings /\ [][ListNext]_vars

----------------------------------------------------------------------------
\* mapBooking as a function of its argument

InitMapBooking == WizIdle /\ PayIdle /\ SessIdle /\ ValIdle /\ ListIdle /\ MapInit /\ MoreIdle

SpecMapBooking == InitMapBooking /\ [][NextMapBooking]_vars

----------------------------------------------------------------------------
\* The BookingEditor's specification

InitEditor ==
    /\ WizIdle /\ PayIdle /\ SessStored /\ ValIdle /\ ListIdle /\ MapIdle
    /\ EdInit /\ PdfIdle /\ InqIdle /\ NoneMounted

SpecEditor == InitEditor /\ [][EdNext]_vars

----------------------------------------------------------------------------
\* The specification of handleDownloadPDF

InitPdf ==
    /\ WizIdle /\ PayIdle /\ SessIdle /\ ValIdle /\ ListShown /\ MapIdle
    /\ EdIdle /\ PdfInit /\ InqIdle /\ NoneMounted

SpecPdf == InitPdf /\ [][PdfNext]_vars

----------------------------------------------------------------------------
\* The specification of the Inquiries view

InitInquiries ==
    /\ WizIdle /\ PayIdle /\ SessIdle /\ ValIdle /\ ListIdle /\ MapIdle
    /\ EdIdle /\ PdfIdle /\ InqInit /\ NoneMounted

SpecInquiries == InitInquiries /\ [][InqNext]_vars

----------------------------------------------------------------------------
\* The specification of the busy flags: the operations that raise one
\* (handleSubmit: submitting, fetchBookings: loading, assignInquiry: loading,
\* BookingEditor.handleSave: saving, the boot effect: isLoading), each in
\* the component that is mounted, with the steps that lead to them. Every
\* request sent completes, answered or failed: http has a timeout of 20 s
\* (part_001 line 1126), the editor's fetch ends with the browser's answer
\* or network error, and the boot effect runs when the provider mounts.

Components == {"wizard", "bookings", "inquiries", "editor", "session"}

InitLive ==
    /\ mounted \in Components
    /\ IF mounted = "wizard" THEN WizInit ELSE WizIdle
    /\ IF mounted = "bookings" THEN ListInit ELSE ListIdle
    /\ IF mounted = "inquiries" THEN InqInit ELSE InqIdle
    /\ IF mounted = "editor" THEN EdInit ELSE EdIdle
    /\ IF mounted = "session" THEN SessInit
       ELSE IF mounted = "editor" THEN SessStored ELSE SessIdle
    /\ PayIdle /\ ValIdle /\ MapIdle /\ PdfIdle

WizResponds ==
    (postSucceeds \/ \E err \in PostErrors : postFails(err)) /\ UNCHANGED notWizVars
ListResponds ==
    (\E k \in 1..Len(gets) :
        \/ serverAnswersGet(k)
        \/ fetchSucceeds(k)
        \/ \E e \in LoadErrors : fetchFails(k, e)) /\ UNCHANGED notListVars
AssignResponds ==
    ( \/ assignSent
      \/ \E message \in AssignFailures : assignFails(message)
      \/ assignRefreshed
      \/ assignRefreshFails ) /\ UNCHANGED notInqVars
SaveResponds ==
    (\E o \in SaveOutcomes : saveSettles(o)) /\ UNCHANGED <<notEdVars, sessVars>>
BootRuns ==
    ( \/ bootStart
      \/ \E me \in MeDatas : bootMeOk(me)
      \/ \E st \in FailStatuses : bootMe1Fails(st)
      \/ \E st \in FailStatuses : bootMe2Fails(st) ) /\ UNCHANGED notSessVars

WizUses ==
    /\ mounted = "wizard"
    /\ \/ OpenModal \/ CloseModal \/ fillTestData \/ addAnotherBooking
       \/ \E index \in 0..LastStep : jumpToStep(index)
       \/ \E index \in 0..(MaxSlots - 1) : switchToBooking(index)
       \/ clickCreateBooking \/ pressEnterInOnlyTextField
    /\ UNCHANGED notWizVars
ListUses ==
    /\ mounted = "bookings"
    /\ \/ fetchBookings
       \/ \E id \in IdSet : serverCreates(id)
       \/ \E id \in IdSet : handleCreateBooking(id)
    /\ UNCHANGED notListVars
InqUses ==
    /\ mounted = "inquiries"
    /\ \/ \E q \in InquiryIds : handleAssignClick(q)
       \/ \E a \in AgentIds : selectAgent(a)
       \/ handleCancelAssign
       \/ handleConfirmAssign
    /\ UNCHANGED notInqVars
EdUses ==
    /\ mounted = "editor"
    /\ \/ \E v \in EditorPnrInputs : onPnrChange(v)
       \/ \E v \in EditorTextInputs : setCustomerName(v)
       \/ \E v \in EditorTextInputs : setCustomerEmail(v)
       \/ \E v \in EditorTextInputs : setBookingPackage(v)
       \/ \E v \in EditorTextInputs : setTravelDate(v)
       \/ clickSave
    /\ UNCHANGED <<notEdVars, sessVars>>

NextLive ==
    \/ WizUses
    \/ mounted = "wizard" /\ WizResponds
    \/ ListUses
    \/ mounted = "bookings" /\ ListResponds
    \/ InqUses
    \/ mounted = "inquiries" /\ AssignResponds
    \/ EdUses
    \/ mounted = "editor" /\ SaveResponds
    \/ mounted = "session" /\ BootRuns

\* The requests and the effect of the mounted component: one component is
\* mounted in a behaviour, so that this is fairness for each of them
Responds ==
    \/ mounted = "wizard" /\ WizResponds
    \/ mounted = "bookings" /\ ListResponds
    \/ mounted = "inquiries" /\ AssignResponds
    \/ mounted = "editor" /\ SaveResponds
    \/ mounted = "session" /\ BootRuns

FairLive == WF_vars(Responds)

SpecLive == InitLive /\ [][NextLive]_vars /\ FairLive

----------------------------------------------------------------------------
\* Properties of the wizard (specification Spec)

\* The fields a step's rules find missing or malformed in a slot
IsBlank(v) == trim(v) = <<>>
IsSixAZ09(v) == Len(v) = 6 /\ \A k \in 1..Len(v) : IsUpper(v[k]) \/ IsDigit(v[k])
OffendingFields(b, id) ==
    IF id = "contact"
    THEN { f \in {"name", "email", "contactNumber", "passengers"} : IsBlank(b[f]) }
    ELSE IF id = "credit"
    THEN { f \in {"cardholderName"} : IsBlank(b[f]) }
    ELSE IF id = "flights"
    THEN { f \in {"departureCity", "arrivalCity"} : IsBlank(b[f]) }
         \cup { f \in {"departureDate", "returnDate", "date"} : b[f] = <<>> }
         \cup { f \in {"pnr"} : ~IsSixAZ09(trim(b[f])) }
    ELSE IF id = "costing"
    THEN { f \in {"totalAmount", "package"} : IsBlank(b[f]) }
    ELSE {}

SlotFails(b) == OffendingFields(b, "flights") \cup OffendingFields(b, "costing") # {}
FailingSlots(bs) == { k \in 0..(Len(bs) - 1) : SlotFails(bs[k + 1]) }
FirstFailing(bs) == CHOOSE k \in FailingSlots(bs) : \A j \in FailingSlots(bs) : k <= j

IsPost(c) == c.call = "POST /api/bookings"
PostsIn(cs) == { n \in 1..Len(cs) : IsPost(cs[n]) }

\* C1: a submit over slots of which at least one fails the flights or costing
\* rules issues no create-request, makes the lowest failing slot the active
\* slot and sets the error map to the union of that slot's flights and
\* costing errors.
C1_SubmitInvalidIssuesNoPost ==
    [][ (handleSubmit /\ FailingSlots(bookings) # {}) =>
            /\ PostsIn(calls') = {}
            /\ sub'.pc = "idle"
            /\ ~submitting'
            /\ currentBookingIndex' = FirstFailing(bookings)
            /\ formData' = bookings[FirstFailing(bookings) + 1]
            /\ DOMAIN errors' =
                   OffendingFields(bookings[FirstFailing(bookings) + 1], "flights")
                   \cup OffendingFields(bookings[FirstFailing(bookings) + 1], "costing")
            /\ \A f \in DOMAIN errors' :
                   errors'[f] =
                       IF f \in {"totalAmount", "package"}
                       THEN validateStepData(bookings[FirstFailing(bookings) + 1], "costing")[f]
                       ELSE validateStepData(bookings[FirstFailing(bookings) + 1], "flights")[f]
      ]_vars

\* C1's case: a submit of two slots has stopped at the second, the first
\* being valid, with errors shown and nothing sent
C1_Witness ==
    /\ isOpen
    /\ Len(bookings) = 2
    /\ ~SlotFails(bookings[1])
    /\ SlotFails(bookings[2])
    /\ currentBookingIndex = 1
    /\ serverError = validationMessage(1)
    /\ DOMAIN errors # {}
    /\ calls = <<>>
    /\ ~submitting

\* The create-request for the slot at index i of the slots bs
IsPostFor(cs, i, bs) ==
    /\ Len(cs) = 1
    /\ IsPost(cs[1])
    /\ cs[1].slot = i
    /\ cs[1].payload.customerName = trim(bs[i + 1].name)
    /\ cs[1].payload.pricing.totalAmount = toNumberMaybe(bs[i + 1].totalAmount)
    /\ cs[1].payload.flight.pnr = bs[i + 1].pnr

\* C2: when every slot passes the flights and costing rules and every
\* create-request succeeds, submit sends one create-request per slot, in
\* slot order, each after the previous response, each carrying the slot's
\* trimmed name, numeric total amount and PNR; after the last response it
\* calls onSubmit per created record in order, resets the wizard and calls
\* onClose.
C2_SubmitAllValidPostsEverySlot ==
    [][ /\ (handleSubmit /\ FailingSlots(bookings) = {}) =>
               IsPostFor(calls', 0, bookings)
        /\ (postSucceeds /\ sub.i + 1 < Len(sub.snap)) =>
               IsPostFor(calls', sub.i + 1, sub.snap)
        /\ (postSucceeds /\ sub.i + 1 = Len(sub.snap)) =>
               /\ Len(calls') = Len(sub.snap) + 1
               /\ \A n \in 1..Len(sub.snap) :
                      calls'[n].call = "onSubmit" /\ calls'[n].slot = createdRecord(n - 1)
               /\ calls'[Len(sub.snap) + 1].call = "onClose"
               /\ bookings' = <<empty>>
               /\ formData' = empty
               /\ currentBookingIndex' = 0
               /\ currentStep' = 0
               /\ DOMAIN errors' = {}
               /\ ~isOpen'
      ]_vars

\* The message of a failed request: the server's message, else the body
\* when it is text, else the transport's message
MessageOfFailure(err) ==
    IF err.dataMessage # "" THEN err.dataMessage
    ELSE IF err.dataString # "" THEN err.dataString
    ELSE err.message

\* C3: when the create-request for slot k fails, submit ends without a
\* further create-request and without any delete or rollback request, the
\* server error is the message of the failed request, and the wizard's open
\* flag and slots are as they were.
C3_FailedPostAbortsRest ==
    [][ \A err \in PostErrors :
            postFails(err) =>
                /\ calls' = <<>>
                /\ sub'.pc = "idle"
                /\ ~submitting'
                /\ serverError' = <<MessageOfFailure(err)>>
                /\ isOpen' = isOpen
                /\ bookings' = bookings
                /\ currentBookingIndex' = currentBookingIndex
      ]_vars

\* C3's case: the request of a two-slot submit has failed and the wizard
\* shows the server's message over its two slots
C3_Witness ==
    /\ isOpen
    /\ Len(bookings) = 2
    /\ serverError = <<"PNR already exists">>
    /\ sub.pc = "idle"
    /\ ~submitting
    /\ calls = <<>>

\* C7: every create-request carries a flight.pnr of exactly 6 characters,
\* all from [A-Z0-9].
C7_PostedPnrIsSixAZ09 ==
    \A n \in PostsIn(calls) : IsSixAZ09(calls[n].payload.flight.pnr)

\* C7's case: a create-request carrying a PNR that was typed as "xyz12345"
C7_Witness ==
    \E n \in PostsIn(calls) : calls[n].payload.flight.pnr = <<"X","Y","Z","1","2","3">>

\* C8: next validates the current step against the data of the active slot:
\* with nothing offending and the step not the last, the step index grows by
\* one; on the last step it stays; with offending fields it stays and the
\* error map has one entry per offending field of the slot; the slots and
\* the active slot are never changed.
C8_NextValidatesActiveSlot ==
    [][ /\ isOpen => nextStepAfter(LastStep, bookings[currentBookingIndex + 1]) = LastStep
        /\ handleNext =>
               /\ DOMAIN errors' = OffendingFields(bookings[currentBookingIndex + 1], stepId)
               /\ \A f \in DOMAIN errors' : errors'[f] # ""
               /\ (OffendingFields(bookings[currentBookingIndex + 1], stepId) = {}
                       /\ currentStep # LastStep)
                      => currentStep' = currentStep + 1
               /\ currentStep = LastStep => currentStep' = currentStep
               /\ OffendingFields(bookings[currentBookingIndex + 1], stepId) # {}
                      => currentStep' = currentStep
               /\ bookings' = bookings
               /\ currentBookingIndex' = currentBookingIndex
      ]_vars

\* The state C8 excludes: on the flights step the error map names the
\* departure city, which the active slot holds, and not the arrival city,
\* which the active slot lacks
C8_ErrorsOfFormNotOfSlot ==
    /\ isOpen
    /\ stepId = "flights"
    /\ "departureCity" \in DOMAIN errors
    /\ "arrivalCity" \notin DOMAIN errors
    /\ ~IsBlank(bookings[currentBookingIndex + 1].departureCity)
    /\ IsBlank(bookings[currentBookingIndex + 1].arrivalCity)

\* C9: add-another-booking appends one slot whose contact and payment fields
\* equal the previously active slot's and whose trip fields are blank or
\* default, makes it the active slot, resets the step index to 0, clears the
\* errors and leaves the earlier slots unchanged.
C9_AddAnotherBooking ==
    [][ addAnotherBooking =>
            /\ Len(bookings') = Len(bookings) + 1
            /\ \A n \in 1..Len(bookings) : bookings'[n] = bookings[n]
            /\ \A f \in {"name", "passengers", "adults", "children", "email",
                         "contactNumber", "agent", "cardNumber", "expiryDate",
                         "cvv", "cardholderName"} :
                   bookings'[Len(bookings) + 1][f] = bookings[currentBookingIndex + 1][f]
            /\ \A f \in {"departureCity", "arrivalCity", "departureDate", "returnDate",
                         "pnr", "hotelName", "roomType", "checkIn", "checkOut",
                         "passportNumber", "nationality", "pickupLocation",
                         "packagePrice", "additionalServices", "totalAmount",
                         "package", "date"} :
                   bookings'[Len(bookings) + 1][f] = <<>>
            /\ bookings'[Len(bookings) + 1].flightClass = Economy
            /\ bookings'[Len(bookings) + 1].visaType = Umrah
            /\ bookings'[Len(bookings) + 1].transportType = Bus
            /\ bookings'[Len(bookings) + 1].paymentMethod = CreditCard
            /\ DOMAIN bookings'[Len(bookings) + 1] = FormFields
            /\ currentBookingIndex' = Len(bookings)
            /\ formData' = bookings'[Len(bookings) + 1]
            /\ currentStep' = 0
            /\ DOMAIN errors' = {}
      ]_vars

\* C9's case: a second slot has been added to a filled first slot
C9_Witness ==
    /\ isOpen
    /\ Len(bookings) = 2
    /\ bookings[1] = testData
    /\ currentBookingIndex = 1
    /\ currentStep = 0
    /\ bookings[2].name = testData.name
    /\ bookings[2].cvv = testData.cvv
    /\ bookings[2].pnr = <<>>
    /\ bookings[2].package = <<>>
    /\ formData = bookings[2]

\* C13: every slot that passes submit's validation can be built into a
\* payload: when submit's validation passes, buildBookingPayload throws for
\* no slot, so that without network failures a submit of N slots sends zero
\* or N create-requests.
C13_ValidatedSlotsCanBeBuilt ==
    [][ (handleSubmit /\ FailingSlots(bookings) = {}) =>
            \A n \in 1..Len(bookings) : buildError(bookings[n]) = ""
      ]_vars

\* The state C13 excludes: of two slots that passed submit's validation the
\* first was sent and the second was rejected by the payload builder
C13_BuilderRejectsSecondSlot ==
    /\ isOpen
    /\ Len(bookings) = 2
    /\ FailingSlots(bookings) = {}
    /\ buildError(bookings[1]) = ""
    /\ IsBlank(bookings[2].name)
    /\ serverError = <<"Customer name is required">>
    /\ sub.pc = "idle"

\* C17: a submit starts only on the last step and a create-request is issued
\* only while the step index is the last step.
C17_SubmitOnlyFromLastStep ==
    [][ /\ handleSubmit => currentStep = LastStep
        /\ PostsIn(calls') # {} => currentStep' = LastStep
      ]_vars

\* The state C17 excludes: a create-request has been issued with the wizard
\* on the transport step
C17_PostFromTransportStep ==
    /\ isOpen
    /\ stepId = "transport"
    /\ PostsIn(calls) # {}
    /\ sub.pc = "awaiting"
    /\ sub.i = 0

\* The step that shows a field
StepIndexOf(id) == CHOOSE k \in 0..LastStep : StepIds[k + 1] = id

\* C18: when submit's validation fails on a slot, the step index moves to
\* the flights step if a flights field is in error and to the costing step
\* if only costing fields are.
C18_FailedSubmitShowsOffendingStep ==
    [][ (handleSubmit /\ FailingSlots(bookings) # {}) =>
            currentStep' =
                IF OffendingFields(bookings[FirstFailing(bookings) + 1], "flights") # {}
                THEN StepIndexOf("flights")
                ELSE StepIndexOf("costing")
      ]_vars

\* The state C18 excludes: a submit has stopped on flights errors and the
\* wizard still shows the costing step
C18_FlightsErrorsOnCostingStep ==
    /\ isOpen
    /\ stepId = "costing"
    /\ serverError = validationMessage(0)
    /\ "departureCity" \in DOMAIN errors
    /\ errors["departureCity"] # ""

\* The PNR input as it is to be stored: uppercased, restricted to [A-Z0-9],
\* cut to 6 characters
UpperOf(c) ==
    IF IsLower(c) THEN CHOOSE k \in 1..Len(UpperChars) : LowerChars[k] = c ELSE 0
ExpectedPnrChars(v) ==
    SelectSeq([k \in 1..Len(v) |-> IF UpperOf(v[k]) # 0 THEN UpperChars[UpperOf(v[k])] ELSE v[k]],
              LAMBDA c : IsUpper(c) \/ IsDigit(c))
ExpectedPnr(v) ==
    IF Len(ExpectedPnrChars(v)) > 6 THEN SubSeq(ExpectedPnrChars(v), 1, 6)
    ELSE ExpectedPnrChars(v)

IsStoredPnr(v) == Len(v) <= 6 /\ \A k \in 1..Len(v) : IsUpper(v[k]) \/ IsDigit(v[k])

\* C19: after an input event on the PNR field the active slot's PNR is the
\* input uppercased, stripped of every character outside [A-Z0-9] and cut to
\* 6 characters ("ab-12 d!" gives "AB12D"); whenever the slots change, every
\* stored PNR is 0 to 6 uppercase alphanumerics, and one shorter than 6 fails
\* flights validation.
C19_PnrInputIsSanitized ==
    [][ /\ \A ev \in InputEvents :
               (ev[1] = "pnr" /\ handleInputChange(ev[1], ev[2])) =>
                   /\ bookings'[currentBookingIndex + 1].pnr = ExpectedPnr(ev[2])
                   /\ formData'.pnr = ExpectedPnr(ev[2])
                   /\ ExpectedPnr(<<"a","b","-","1","2"," ","d","!">>) = <<"A","B","1","2","D">>
        /\ bookings' # bookings =>
               \A n \in 1..Len(bookings') :
                   /\ IsStoredPnr(bookings'[n].pnr)
                   /\ Len(bookings'[n].pnr) < 6 =>
                          "pnr" \in DOMAIN validateStepData(bookings'[n], "flights")
      ]_vars

\* C19's case: "ab-12 d!" was typed into the PNR field of a filled slot,
\* which now fails the flights rules on the PNR alone
C19_Witness ==
    /\ isOpen
    /\ bookings[currentBookingIndex + 1].pnr = <<"A","B","1","2","D">>
    /\ formData.pnr = <<"A","B","1","2","D">>
    /\ bookings[currentBookingIndex + 1].name = testData.name
    /\ DOMAIN validateStepData(bookings[currentBookingIndex + 1], "flights") = {"pnr"}

\* C22: with the wizard open, the form data shown and edited is the slot
\* stored at the active slot index, so that submit validates and sends for
\* the active slot what the form displays.
C22_FormIsActiveSlot ==
    isOpen =>
        /\ formData = bookings[currentBookingIndex + 1]
        /\ errorsCombined(formData) = errorsCombined(bookings[currentBookingIndex + 1])

\* The state C22 excludes: after Fill Test Data and Swap Cities the form
\* shows the cities swapped and the active slot holds them as filled
C22_FormShowsSwapSlotDoesNot ==
    /\ isOpen
    /\ stepId = "flights"
    /\ bookings[currentBookingIndex + 1] = testData
    /\ formData.departureCity = testData.arrivalCity
    /\ formData.arrivalCity = testData.departureCity
    /\ formData # bookings[currentBookingIndex + 1]

\* C23: each slot is the subject of at most one successful create-request
\* between two resets of the slots: a create-request succeeds only for a
\* slot the server has not yet created a booking for.
C23_SlotCreatedAtMostOnce ==
    [][ postSucceeds => sub.i \notin posted ]_vars

\* The state C23 excludes: slot 1 was created, a later slot's request
\* failed, and on the next submit the create-request for slot 1 is in flight
\* again
C23_CreatedSlotPostedAgain ==
    /\ isOpen
    /\ Len(bookings) = 2
    /\ posted = {0}
    /\ sub.pc = "awaiting"
    /\ sub.i = 0
    /\ PostsIn(calls) # {}
    /\ calls[1].slot = 0

\* C28: with the wizard open the slot list is non-empty, the active slot
\* index addresses a slot and the step index lies in 0..6; the slot list
\* of an open wizard grows only through add-another-booking, shrinks only
\* through the reset that follows the last successful create-request of a
\* submit, and closing the wizard keeps the slots.
C28_SlotsIndexAndStepStayValid ==
    /\ [](isOpen => /\ Len(bookings) >= 1
                    /\ currentBookingIndex \in 0..(Len(bookings) - 1)
                    /\ currentStep \in 0..LastStep)
    /\ [][ (isOpen /\ Len(bookings') > Len(bookings)) => addAnotherBooking ]_vars
    /\ [][ Len(bookings') < Len(bookings) =>
              /\ postSucceeds
              /\ sub.i + 1 = Len(sub.snap)
              /\ bookings' = <<empty>> ]_vars
    /\ [][ CloseModal => bookings' = bookings ]_vars

\* C28's case: the wizard was closed on its second slot away from the first
\* step, and the two slots, the slot index and the step index are kept
C28_Witness ==
    /\ ~isOpen
    /\ Len(bookings) = 2
    /\ currentBookingIndex = 1
    /\ currentStep = 2
    /\ sub.pc = "idle"

----------------------------------------------------------------------------
\* Properties of buildBookingPayload (specification SpecPayload)

Returned == Len(pOut) = 2 /\ pOut[1] = "returned"

\* Two slots that differ at most in the CVV and in the card-number digits
\* before the last four
SameButCardSecrets(a, b) ==
    /\ \A f \in FormFields \ {"cvv", "cardNumber"} : a[f] = b[f]
    /\ sliceLast(OnlyDigits(a.cardNumber), 4) = sliceLast(OnlyDigits(b.cardNumber), 4)

\* C4: the full card number and the CVV are not transmitted: slots that
\* differ only in the CVV or in the card-number digits before the last four
\* give identical payloads.
C4_CardSecretsNotInPayload ==
    Returned =>
        \A other \in PayloadInputs :
            SameButCardSecrets(pIn, other) => buildBookingPayload(other, pUser) = pOut[2]

\* The state C4 excludes: the payload returned for a slot carries the slot's
\* CVV and its whole card number
C4_PayloadCarriesCardSecrets ==
    /\ Returned
    /\ pIn.cvv = <<"9","9","9">>
    /\ pOut[2].cvv = pIn.cvv
    /\ Len(OnlyDigits(pIn.cardNumber)) = 16
    /\ pOut[2].cardNumber = pIn.cardNumber
    /\ pOut[2].payment.cardLast4 = <<"1","1","1","1">>

\* C10: the payload's agentId is the agent selected in the form when one is
\* selected, else the user's agentId, else the user's id.
C10_AgentIdPrefersFormSelection ==
    Returned =>
        pOut[2].agentId =
            IF pIn.agent # <<>> THEN pIn.agent
            ELSE IF OptField(pUser, "agentId") # Undefined THEN OptField(pUser, "agentId")
            ELSE IF OptField(pUser, "id") # Undefined THEN OptField(pUser, "id")
            ELSE pOut[2].agentId

\* The state C10 excludes: an agent is selected in the form and the payload
\* names the logged-in user's agent instead
C10_UserOverridesFormSelection ==
    /\ Returned
    /\ pIn.agent = <<"a","l","i">>
    /\ pUser = UserObject(<<"a","7">>, <<"u","1">>, Undefined)
    /\ pOut[2].agentId = <<"a","7">>

\* Empty or whitespace only
OnlyWhitespace(v) == \A k \in 1..Len(v) : v[k] = " "

\* C12: buildBookingPayload throws when the slot's name, email or package is
\* empty or whitespace only, and for every other slot and every user value,
\* no user included, it returns a payload.
C12_ThrowsExactlyOnBlankRequired ==
    pOut # <<>> =>
        /\ pOut[1] = "threw" <=>
               \/ OnlyWhitespace(pIn.name)
               \/ OnlyWhitespace(pIn.email)
               \/ OnlyWhitespace(pIn.package)
        /\ pOut[1] # "threw" =>
               /\ Returned
               /\ ~OnlyWhitespace(pOut[2].customerName)
               /\ ~OnlyWhitespace(pOut[2].customerEmail)
               /\ ~OnlyWhitespace(pOut[2].package)

\* C12's case: without a user, a slot whose package alone is blank was
\* rejected
C12_Witness ==
    /\ pUser = NullUser
    /\ pIn.name = testData.name
    /\ pIn.email = testData.email
    /\ pIn.package = <<" ">>
    /\ pOut = <<"threw", "Package is required">>

----------------------------------------------------------------------------
\* Properties of the session store and HTTP client (specification SpecSession)

\* C5: once a response with status 401 has been handled, the stored token,
\* the cached user and the tenant id are removed and the application is not
\* authenticated.
C5_401ClearsSession ==
    last401 =>
        /\ ls.token = Null
        /\ ls.user = NoUserObject
        /\ ls.companyId = Null
        /\ ~isAuthenticated

\* The state C5 excludes: a 401 has been handled, and the cached user and the
\* tenant id are still stored and the application is still authenticated
C5_SessionSurvives401 ==
    /\ last401
    /\ ls.token = Null
    /\ ls.user # NoUserObject
    /\ ls.companyId # Null
    /\ isAuthenticated

\* The tenant id by the documented priority: storage, URL query, environment
TenantByPriority ==
    IF normalizeCompanyId(ls.companyId) # Null THEN normalizeCompanyId(ls.companyId)
    ELSE IF normalizeCompanyId(urlCompanyId) # Null THEN normalizeCompanyId(urlCompanyId)
    ELSE normalizeCompanyId(envCompanyId)

\* C6: every request sent while a token and a tenant id are stored carries
\* Authorization: Bearer <token> and x-company-id; the tenant id sent is the
\* first of storage, URL query and environment that has one.
C6_EveryRequestCarriesTokenAndTenant ==
    \A n \in 1..Len(wire) :
        /\ (ls.token # Null /\ ls.companyId # Null) =>
               /\ wire[n].authorization = Bearer(ls.token)
               /\ wire[n].companyId # Null
        /\ wire[n].companyId # Null => wire[n].companyId = TenantByPriority

\* The state C6 excludes: with a token and a tenant id stored, a request has
\* left with the bearer token and without the tenant header
C6_RequestWithoutTenantHeader ==
    /\ ls.token # Null
    /\ ls.companyId # Null
    /\ Len(wire) = 1
    /\ wire[1].url = "/api/bookings"
    /\ wire[1].authorization = Bearer(ls.token)
    /\ wire[1].companyId = Null

\* The order of the two /me requests on load, and the session when the
\* tenant id is missing and both fail
BootOrderAndDrop ==
    /\ (bootStart /\ auth'.pc # "ready") =>
           /\ Len(wire') = 1
           /\ wire'[1].url = "/api/auth/me"
    /\ (auth.pc \in {"boot", "bootMe1", "bootMe2"}
            /\ \E n \in 1..Len(wire') : wire'[n].url = "/api/agent/me") =>
           /\ auth.pc = "bootMe1"
           /\ \E st \in FailStatuses : bootMe1Fails(st)
    /\ \A st \in FailStatuses :
           (bootMe2Fails(st) /\ ~auth.hadCompanyId) =>
               /\ ls'.token = Null
               /\ ls'.user = NoUserObject
               /\ ls'.companyId = Null
               /\ authUser' = NoUserObject

\* A failed /me request of the refresh on load, a tenant id being stored
FailedRefreshStep(st) ==
    /\ auth.hadCompanyId
    /\ bootMe1Fails(st) \/ bootMe2Fails(st)

\* C14 as stated: admin-me is requested first and agent-me only after admin-me
\* failed; with the tenant id missing and both failed, token, user and
\* tenant id are removed and the user is null; with a tenant id stored, a
\* failed refresh leaves the cached session untouched.
C14_FailedRefreshLeavesSessionUntouched ==
    [][ /\ BootOrderAndDrop
        /\ \A st \in FailStatuses :
               FailedRefreshStep(st) => (ls' = ls /\ authUser' = authUser)
      ]_vars

\* C14, amended: as above, except that with a tenant id stored a failed
\* refresh leaves the cached session untouched when the failed response has
\* a status other than 401; a response with status 401 removes the token.
C14_FailedRefreshUntouchedUnless401 ==
    [][ /\ BootOrderAndDrop
        /\ \A st \in FailStatuses :
               FailedRefreshStep(st) =>
                   IF st = 401 THEN ls'.token = Null
                   ELSE ls' = ls /\ authUser' = authUser
      ]_vars

\* C14's case: on load with a token and a tenant id stored, admin-me has
\* failed with a status other than 401 and agent-me has been requested: the
\* cached session is as it was
C14_Witness ==
    /\ auth.pc = "bootMe2"
    /\ auth.hadCompanyId
    /\ ~last401
    /\ Len(wire) = 1
    /\ wire[1].url = "/api/agent/me"
    /\ wire[1].authorization = Bearer(TokenOld)
    /\ ls.token = TokenOld
    /\ ls.user = UserRecord("agent", CompanyA)
    /\ ls.companyId = CompanyA
    /\ authUser = UserRecord("agent", CompanyA)

\* C24: in every state of the session store, being authenticated (user
\* state non-null) implies that a token is present in storage.
C24_AuthenticatedImpliesToken ==
    isAuthenticated => getToken(ls) # Null

\* The state C24 excludes: login has returned false with no 401 involved,
\* its catch has emptied the storage, and the user state of the session
\* that was running before is still set
C24_FailedLoginKeepsUserState ==
    /\ loginReturned = "false"
    /\ ~last401
    /\ ls = ClearedStore
    /\ isAuthenticated

\* C25: when fetchMeWithBuster sends the agent-me request after the admin-me
\* request has failed, the agent-me request carries the Authorization header
\* the admin-me request carried, whatever the status of the failure.
C25_AgentMeCarriesSameToken ==
    [][ ( /\ wire # <<>>
          /\ wire[1].url = "/api/auth/me"
          /\ wire' # <<>>
          /\ wire'[1].url = "/api/agent/me" )
        => /\ wire'[1].authorization = wire[1].authorization
           /\ wire'[1].authorization # Null ]_vars

\* The state C25 excludes: right after a login that stored a new token,
\* admin-me was rejected with 401 and agent-me is sent without Authorization
C25_AgentMeWithoutToken ==
    /\ auth.pc = "loginMe2"
    /\ last401
    /\ auth.data.token = TokenNew
    /\ wire # <<>>
    /\ wire[1].url = "/api/agent/me"
    /\ wire[1].authorization = Null

\* C26: whenever login returns true a token is present in storage and the
\* user state is non-null; the admin login endpoint is requested first and
\* the agent login endpoint only when the admin login request has failed.
C26_LoginTrueMeansSession ==
    /\ [](loginReturned = "true" => (getToken(ls) # Null /\ isAuthenticated))
    /\ [][ loginStart => wire'[1].url = "/api/auth/login" ]_vars
    /\ [][ (wire' # <<>> /\ wire'[1].url = "/api/agent/login") =>
              (auth.pc = "login1" /\ \E st \in FailStatuses : login1Fails(st)) ]_vars

\* The state C26 excludes: the login response carried a token and a tenant
\* id, /me answered with an empty body, and login has returned true with the
\* token stored and the user state null
C26_LoginTrueWithoutUser ==
    /\ loginReturned = "true"
    /\ ls.token = TokenNew
    /\ ls.companyId # Null
    /\ ~isAuthenticated

----------------------------------------------------------------------------
\* Properties of validateStepData (specification SpecValidate)

\* The required fields of a step as the specification lists them
RequiredPresent(b, id) ==
    CASE id = "contact" ->
             \A f \in {"name", "email", "contactNumber", "passengers"} :
                 ~OnlyWhitespace(b[f])
      [] id = "credit" -> ~OnlyWhitespace(b.cardholderName)
      [] id = "flights" ->
             /\ \A f \in {"departureCity", "arrivalCity", "departureDate",
                           "returnDate", "date"} : ~OnlyWhitespace(b[f])
             /\ IsSixAZ09(b.pnr)
      [] id = "costing" -> \A f \in {"totalAmount", "package"} : ~OnlyWhitespace(b[f])
      [] OTHER -> TRUE

----------------------------------------------------------------------------
\* Properties of the bookings list (specification SpecBookings)

\* The two lists hold the same bookings but for b
SameButFor(b, before, after) ==
    \A c \in IdSet \ {b} : InList(c, after) <=> InList(c, before)

\* C15: on confirmation handleDelete takes the booking out of the list and
\* sends the DELETE request, the response still outstanding; when the
\* request fails the booking is in the list again and the failure message
\* is shown; on a declined confirmation no request is sent and the list is
\* unchanged.
C15_OptimisticDeleteRollsBack ==
    [][ /\ \A id \in IdSet :
               /\ handleDelete(id, TRUE) =>
                      /\ ~InList(id, uiBookings')
                      /\ SameButFor(id, uiBookings, uiBookings')
                      /\ listCalls' = <<DeleteCall(id)>>
                      /\ Len(dels') = Len(dels) + 1
                      /\ dels'[Len(dels')].id = id
               /\ handleDelete(id, FALSE) =>
                      /\ uiBookings' = uiBookings
                      /\ listCalls' = <<>>
                      /\ dels' = dels
        /\ \A k \in 1..Len(dels) :
               deleteFails(k) =>
                   /\ InList(dels[k].id, uiBookings')
                   /\ alerted'
      ]_vars

\* C15's case: the delete of b1 has failed with nothing else under way:
\* the message was shown and b1 is listed again, in its place
C15_Witness ==
    /\ alerted
    /\ uiBookings = <<"b1", "b2">>
    /\ server = ServerAtMount
    /\ dels = <<>>
    /\ gets = <<>>
    /\ toReport = {}

\* Added to the list by handleCreateBooking
AddedByCallback(b) ==
    ServerAtMount[b] = "absent" /\ server[b] # "absent" /\ b \notin toReport

\* C16: the rollback of a failed delete does not put back a booking whose
\* own DELETE request succeeded, and does not remove a booking that a
\* create callback added.
C16_RollbackTouchesOnlyItsBooking ==
    [][ \A k \in 1..Len(dels) :
            deleteFails(k) =>
                \A b \in IdSet \ {dels[k].id} :
                    /\ (server[b] = "deleted" /\ ~InList(b, uiBookings)) =>
                           ~InList(b, uiBookings')
                    /\ (AddedByCallback(b) /\ InList(b, uiBookings)) =>
                           InList(b, uiBookings')
      ]_vars

\* The state C16 excludes: the delete of b1 has just failed, and the list
\* shows b2, which the server has deleted, and no longer shows b3, which
\* the create callback had added
C16_RollbackRevivesDeletedBooking ==
    /\ alerted
    /\ uiBookings = <<"b1", "b2">>
    /\ server["b1"] = "live"
    /\ server["b2"] = "deleted"
    /\ server["b3"] = "live"
    /\ "b3" \notin toReport
    /\ dels = <<>>

----------------------------------------------------------------------------
\* Properties of mapBooking (specification SpecMapBooking)

\* A record carrying only the legacy flat fields, one carrying only the
\* newer equivalents, and the same values moved from one shape to the other
IsLegacyOnly(b) ==
    /\ ~b.isNullish
    /\ b.customerName = JsUndefined /\ b.customerEmail = JsUndefined
    /\ b.amount = JsUndefined /\ b.pricing = NoPricing("undefined")
NewerOf(b) ==
    ApiRecord(b.customer, JsUndefined, b.email, JsUndefined, JsUndefined,
              PricingObject(b.totalAmount), JsUndefined)

\* The number a value stands for: a finite number is itself, a string is
\* read as a number after its $ and , are removed, everything else is 0
ReadAmount(v) ==
    CASE v.t = "number" /\ v.n # NaN -> v.n
      [] v.t = "string" /\ Number(SelectSeq(v.s, LAMBDA c : c \notin {"$", ","})) # NaN ->
             Number(SelectSeq(v.s, LAMBDA c : c \notin {"$", ","}))
      [] OTHER -> 0

\* The three sources of the amount in their order
AmountSources(b) == <<FieldOf(b, "amount"), PricingTotalOf(b), FieldOf(b, "totalAmount")>>

\* The first source that is present, zero when none is
FirstPresentAmount(b) ==
    LET src == AmountSources(b)
        here == { k \in 1..3 : ~IsNullish(src[k]) }
    IN  IF here = {} THEN 0
        ELSE ReadAmount(src[CHOOSE k \in here : \A j \in here : k <= j])

\* The first source that reads as a number other than zero, zero when none
\* does
FirstNonZeroAmount(b) ==
    LET src == AmountSources(b)
        here == { k \in 1..3 : ReadAmount(src[k]) # 0 }
    IN  IF here = {} THEN 0
        ELSE ReadAmount(src[CHOOSE k \in here : \A j \in here : k <= j])

\* mapBooking returns, and a legacy-only record maps to the customer, email
\* and amount of its newer equivalent
ShapeIndependent ==
    mOut # <<>> =>
        /\ mOut[1] = "returned"
        /\ IsLegacyOnly(mIn) =>
               /\ mOut[2].customer = mapBooking(NewerOf(mIn)).customer
               /\ mOut[2].email = mapBooking(NewerOf(mIn)).email
               /\ mOut[2].amount = mapBooking(NewerOf(mIn)).amount
               /\ ~IsNullish(mIn.customer) => mOut[2].customer = mIn.customer
               /\ ~IsNullish(mIn.email) => mOut[2].email = mIn.email

\* C20 as stated: mapBooking never throws, is shape-independent, and the
\* amount is the explicit amount, else the nested pricing total, else the
\* legacy totalAmount, else zero.
C20_AmountIsFirstPresentSource ==
    /\ ShapeIndependent
    /\ mOut # <<>> => mOut[2].amount = FirstPresentAmount(mIn)

\* C20, amended: mapBooking never throws, is shape-independent, and the
\* amount is the first of explicit amount, nested pricing total and legacy
\* totalAmount that reads as a number other than zero, else zero.
C20_AmountIsFirstNonZeroSource ==
    /\ ShapeIndependent
    /\ mOut # <<>> => mOut[2].amount = FirstNonZeroAmount(mIn)

\* C20's case: a legacy-only record with customer, email and a totalAmount
\* of "$2,500" has been mapped
C20_Witness ==
    /\ IsLegacyOnly(mIn)
    /\ mIn.customer = JsString(<<"S","a","r","a">>)
    /\ mIn.email = JsString(<<"s","@","x",".","p","k">>)
    /\ mIn.totalAmount = JsString(<<"$","2",",","5","0","0">>)
    /\ mOut # <<>>
    /\ mOut[2].customer = JsString(<<"S","a","r","a">>)
    /\ mOut[2].amount = 2500

----------------------------------------------------------------------------
\* Properties of the BookingEditor (specification SpecEditor)

\* C30: the stored PNR is 0 to 6 uppercase letters and digits; Save is
\* enabled only when the PNR has exactly 6 characters, customer name, email,
\* package and date are non-empty and no save is in flight; and isPnrValid
\* is true exactly when the PNR has the 6 characters Save requires.
C30_PnrValidMeansSaveable ==
    /\ Len(pnr) <= 6
    /\ \A k \in 1..Len(pnr) : IsUpper(pnr[k]) \/ IsDigit(pnr[k])
    /\ ~saveDisabled =>
           /\ Len(pnr) = 6
           /\ customerName # <<>> /\ customerEmail # <<>>
           /\ bookingPackage # <<>> /\ travelDate # <<>>
           /\ ~saving
    /\ isPnrValid <=> Len(pnr) = 6

\* The state C30 excludes: "abc12d" was typed and the required details are
\* filled, so that Save is enabled, and the PNR input is not shown as valid
C30_SaveEnabledPnrShownInvalid ==
    /\ pnr = <<"A","B","C","1","2","D">>
    /\ ~saveDisabled
    /\ ~isPnrValid

----------------------------------------------------------------------------
\* Properties of handleDownloadPDF (specification SpecPdf)

HasCall(route, b) == \E n \in 1..Len(pdfCalls') : pdfCalls'[n].route = route /\ pdfCalls'[n].target = b

\* C29: handleDownloadPDF requests the expanded booking first and POSTs it
\* to the versioned PDF route only if that fetch returned data; the legacy
\* GET /api/bookings/:id/pdf is requested exactly when the expanded fetch
\* failed or returned nothing or the versioned POST failed; the alert is
\* shown exactly when the legacy request fails; the list is left unchanged.
C29_PdfFallbackOrder ==
    [][ /\ \A b \in IdSet :
             /\ handleDownloadPDF(b) => pdfCalls' = <<ExpandCall(b)>>
             /\ HasCall("/pdf?v=2", b) <=>
                    \E data \in ExpandedDatas \ {""} :
                        /\ expandReturns(b, data)
                        /\ pdfCalls' = <<PdfV2Call(b, data)>>
             /\ HasCall("/pdf", b) <=>
                    \/ expandFails(b)
                    \/ expandReturns(b, "")
                    \/ postV2Fails(b)
        /\ pdfAlert' <=> \E b \in IdSet : legacyFails(b)
        /\ uiBookings' = uiBookings ]_vars

\* C29's case: with two bookings listed, the download of b1 has ended in the
\* alert while the versioned POST for b2 is awaited
C29_Witness ==
    /\ uiBookings = <<"b1", "b2">>
    /\ pdfAlert
    /\ pdf["b1"].pc = "idle"
    /\ pdf["b2"].pc = "posting"
    /\ pdf["b2"].full = "partial"

----------------------------------------------------------------------------
\* Properties of the Inquiries view (specification SpecInquiries)

SendsStatus(q, status) ==
    \E n \in 1..Len(inqCalls') : inqCalls'[n] = StatusCall(q, status)

\* C27: a status update to 'responded' is sent only for an inquiry that is
\* pending, on the server and in the list shown, at the moment it is sent,
\* and only by an admin; once a close request has succeeded no later
\* request changes the status of that inquiry back to 'responded'.
C27_RespondedOnlyWhilePending ==
    [][ \A q \in InquiryIds :
          /\ SendsStatus(q, "responded") =>
                 /\ inqIsAdmin
                 /\ inqServer[q] = "pending"
                 /\ inquiries[q] = "pending"
          /\ inqServer[q] = "closed" => inqServer'[q] = "closed" ]_vars

\* The state C27 excludes: the list shows the inquiry closed, as refreshed
\* after the close succeeded, and the status update of a respond started
\* before the close has set the server's status to 'responded'
C27_ClosedInquiryReopened ==
    /\ inqIsAdmin
    /\ inquiries["q1"] = "closed"
    /\ inqServer["q1"] = "responded"
    /\ resp.pc = "refreshing"
    /\ resp.seen = "pending"
    /\ clo.pc = "idle"

----------------------------------------------------------------------------
\* Properties of the busy flags (specification SpecLive)

\* A message is on display: the wizard's server error, the error banner of
\* the bookings list or of the inquiries, the editor's save error, an alert
MessageShown ==
    \/ serverError # <<>>
    \/ listErr # ""
    \/ inqErr # ""
    \/ saveError # <<>>
    \/ alerted
    \/ pdfAlert

\* The busy flag of the mounted component is raised
busyFlag ==
    \/ mounted = "wizard" /\ submitting
    \/ mounted = "bookings" /\ listLoading
    \/ mounted = "inquiries" /\ inqLoading
    \/ mounted = "editor" /\ saving
    \/ mounted = "session" /\ isLoading

\* Every raised busy flag is lowered again
FlagsAreLowered == busyFlag ~> ~busyFlag

\* A failed request of submit, fetchBookings, assignInquiry or handleSave
\* leaves its message on display, the flag lowered and no run under way
FailuresShowAndCanRetry ==
    [][ /\ (\E err \in PostErrors : postFails(err)) =>
               (serverError' # <<>> /\ ~submitting' /\ sub'.pc = "idle")
        /\ (\E k \in 1..Len(gets), e \in LoadErrors : fetchFails(k, e)) =>
               (listErr' # "" /\ ~listLoading' /\ Len(gets') < MaxFetches)
        /\ ((\E message \in AssignFailures : assignFails(message)) \/ assignRefreshFails) =>
               (inqErr' # "" /\ ~inqLoading' /\ asg'.pc = "idle" /\ assigningTo' # NoInquiry)
        /\ (\E o \in SaveOutcomes : ~o.ok /\ saveSettles(o)) =>
               (saveError' # <<>> /\ ~saving') ]_vars

\* A failed request of the boot effect leaves a message on display
BootFailuresShow ==
    [][ (\E st \in FailStatuses : bootMe1Fails(st) \/ bootMe2Fails(st)) =>
            MessageShown' ]_vars

====
